---- MODULE Spec2Model ----
(***************************************************************************)
(* A model of the claude-learn scraper's fetch-and-discover pipeline:      *)
(* the URL normalizer/scorer and URLQueue (scraper/queue.py), the Fetcher  *)
(* (scraper/fetcher.py) and the crawl loop of run_scraper (scraper/cli.py).*)
(***************************************************************************)
EXTENDS Integers, Sequences, FiniteSets, TLC

VARIABLES
    queue,      \* URLQueue: [urls: insertion-ordered <<[norm, entry]>>, fetched: set of normalized URLs]
    last,       \* the most recent URLQueue call: its name, arguments and return value
    offered,    \* history: pending normalized URL -> best score offered by a non-skipped add
    added,      \* history: the normalized URLs for which an add has returned true
    phase,            \* run_scraper: the phase it is in
    config,           \* run_scraper: the ScrapeConfig it was called with
    initial_urls,     \* run_scraper: the seed URLs it was called with
    disallowed_paths, \* run_scraper: the robots.txt rules collected by discovery
    all_content,      \* run_scraper: the accepted page records
    seen_texts,       \* run_scraper: the comparison text of every accepted page
    stats,            \* run_scraper: the outcome counters
    batch_num,        \* run_scraper: the number of batches fetched
    docs_domains,     \* run_scraper: the seed origins discovery has still to visit
    detected_version, \* run_scraper: <<>> for None, or <<the version string>>
    changelog_entries, \* run_scraper: the entries of the changelog found last
    network,          \* history: what run_scraper has asked of the network and what came back
    fetcher,          \* Fetcher: its cache, per-domain locks and timestamps, free semaphore slots
    tasks,            \* fetch_batch: the frame of each fetch_one coroutine it gathers
    returned,         \* fetch_batch: <<>> while it runs, then <<the list it returned>>
    clock,            \* time.monotonic(): whether the model tracks it, and its value in ticks
    page_cache        \* PageCache: max_entries, ttl, the entry files of cache_dir, and time.time()

qvars == <<queue, last, offered, added>>
hvars == <<last, offered, added>>
rvars == <<phase, config, initial_urls, disallowed_paths, all_content, seen_texts, stats,
           batch_num, docs_domains, detected_version, changelog_entries, network>>
fvars == <<fetcher, tasks, returned, clock, page_cache>>
vars == <<queue, last, offered, added, phase, config, initial_urls, disallowed_paths,
          all_content, seen_texts, stats, batch_num, docs_domains, detected_version,
          changelog_entries, network, fetcher, tasks, returned, clock, page_cache>>

-----------------------------------------------------------------------------
(* Strings.  A Python str is a TLA+ string; the operators below are the    *)
(* str methods the source uses.                                            *)

UpperChars == "ABCDEFGHIJKLMNOPQRSTUVWXYZ"
LowerChars == "abcdefghijklmnopqrstuvwxyz"

LowerChar(c) ==
    IF \E i \in 1..Len(UpperChars) : SubSeq(UpperChars, i, i) = c
    THEN LET i == CHOOSE j \in 1..Len(UpperChars) : SubSeq(UpperChars, j, j) = c
         IN  SubSeq(LowerChars, i, i)
    ELSE c

RECURSIVE Lower(_)
Lower(s) ==
    IF Len(s) = 0 THEN ""
    ELSE IF Len(s) = 1 THEN LowerChar(s)
    ELSE Lower(SubSeq(s, 1, Len(s) \div 2)) \o Lower(SubSeq(s, Len(s) \div 2 + 1, Len(s)))

RECURSIVE Repeat(_, _)
Repeat(s, n) ==
    IF n = 0 THEN "" ELSE IF n = 1 THEN s
    ELSE Repeat(s, n \div 2) \o Repeat(s, n - n \div 2)

\* s.split(" "): the pieces between the spaces of s, empty ones included.
RECURSIVE Pieces(_)
Pieces(s) ==
    IF Len(s) = 0 THEN <<"">>
    ELSE IF Len(s) = 1 THEN (IF s = " " THEN <<"", "">> ELSE <<s>>)
    ELSE LET left == Pieces(SubSeq(s, 1, Len(s) \div 2))
             right == Pieces(SubSeq(s, Len(s) \div 2 + 1, Len(s)))
         IN  SubSeq(left, 1, Len(left) - 1)
             \o <<left[Len(left)] \o right[1]>>
             \o SubSeq(right, 2, Len(right))

\* s.split(): the words of s.  The texts of the model have no whitespace but
\* the space.
Split(s) == LET NonEmpty(piece) == piece # "" IN SelectSeq(Pieces(s), NonEmpty)

Contains(s, sub) ==
    \E i \in 1..(Len(s) - Len(sub) + 1) : SubSeq(s, i, i + Len(sub) - 1) = sub

StartsWith(s, pre) == Len(s) >= Len(pre) /\ SubSeq(s, 1, Len(pre)) = pre

EndsWith(s, suf) == Len(s) >= Len(suf) /\ SubSeq(s, Len(s) - Len(suf) + 1, Len(s)) = suf

RECURSIVE RStripSlash(_)
RStripSlash(s) ==
    IF s # "" /\ EndsWith(s, "/") THEN RStripSlash(SubSeq(s, 1, Len(s) - 1)) ELSE s

RECURSIVE Join(_, _)
Join(parts, sep) ==
    IF parts = <<>> THEN ""
    ELSE IF Len(parts) = 1 THEN parts[1]
    ELSE parts[1] \o sep \o Join(Tail(parts), sep)

SeqToSet(s) == {s[i] : i \in 1..Len(s)}

Min(a, b) == IF a <= b THEN a ELSE b

\* The element of a one-element set.  { e(x) : x \in {v} } binds x to the value
\* of v, so a fold below computes each intermediate result once.
Only(S) == CHOOSE v \in S : TRUE

-----------------------------------------------------------------------------
(* URLs.  A URL is held as the six components urllib's urlparse splits it  *)
(* into, the query as its <<key, value>> pairs in order of appearance.     *)

Url(scheme, netloc, path, query, fragment) ==
    [scheme |-> scheme, netloc |-> netloc, path |-> path, params |-> "",
     query |-> query, fragment |-> fragment]

\* urlparse lowercases the scheme and leaves every other component as written.
urlparse(url) == [url EXCEPT !.scheme = Lower(@)]

\* parse_qs(query, keep_blank_values=True): key -> list of values, keys in
\* order of first appearance.
RECURSIVE QueryKeys(_, _)
QueryKeys(query, seen) ==
    IF query = <<>> THEN <<>>
    ELSE IF query[1][1] \in seen THEN QueryKeys(Tail(query), seen)
    ELSE <<query[1][1]>> \o QueryKeys(Tail(query), seen \cup {query[1][1]})

RECURSIVE QueryValues(_, _)
QueryValues(query, k) ==
    IF query = <<>> THEN <<>>
    ELSE (IF query[1][1] = k THEN <<query[1][2]>> ELSE <<>>) \o QueryValues(Tail(query), k)

parse_qs(query) ==
    LET keys == QueryKeys(query, {})
    IN  [i \in 1..Len(keys) |-> <<keys[i], QueryValues(query, keys[i])>>]

\* urlencode(params, doseq=True): "k=v" for every value of every key, joined by "&".
RECURSIVE urlencode(_)
urlencode(params) ==
    IF params = <<>> THEN <<>>
    ELSE [i \in 1..Len(params[1][2]) |-> params[1][1] \o "=" \o params[1][2][i]]
         \o urlencode(Tail(params))

\* The query string as written in the URL.
QueryString(query) == Join([i \in 1..Len(query) |-> query[i][1] \o "=" \o query[i][2]], "&")

\* urlunparse((scheme, netloc, path, params, query, fragment)).
urlunparse(scheme, netloc, path, params, query, fragment) ==
    LET p1 == IF params # "" THEN path \o ";" \o params ELSE path
        p2 == IF netloc # "" \/ (scheme \in {"http", "https"} /\ ~StartsWith(p1, "//"))
              THEN "//" \o netloc \o (IF p1 # "" /\ ~StartsWith(p1, "/") THEN "/" \o p1 ELSE p1)
              ELSE p1
        p3 == IF scheme # "" THEN scheme \o ":" \o p2 ELSE p2
        p4 == IF query # "" THEN p3 \o "?" \o query ELSE p3
    IN  IF fragment # "" THEN p4 \o "#" \o fragment ELSE p4

\* The URL as the string the caller wrote.
UrlString(url) ==
    urlunparse(url.scheme, url.netloc, url.path, url.params,
               QueryString(url.query), url.fragment)

-----------------------------------------------------------------------------
(* scraper/config.py: score tiers and path patterns.                       *)

SCORE_OFFICIAL_API == 5
SCORE_SITEMAP_DOC == 5
SCORE_OFFICIAL_GUIDE == 4
SCORE_GITHUB_README == 4
SCORE_REGISTRY == 3
SCORE_WIKI == 3
SCORE_BLOG == 2
SCORE_STACKOVERFLOW == 2
SCORE_WAYBACK == 1
SCORE_UNKNOWN == 1

DOC_PATH_PATTERNS ==
    {"/docs/", "/api/", "/guide/", "/reference/", "/tutorial/", "/getting-started/",
     "/handbook/", "/manual/", "/learn/", "/quickstart/"}

SKIP_PATH_PATTERNS ==
    {"/blog/", "/pricing/", "/login/", "/signup/", "/careers/", "/about/", "/contact/",
     "/legal/", "/privacy/", "/terms/", "/press/", "/news/"}

TRACKING_PARAMS ==
    {"utm_source", "utm_medium", "utm_campaign", "utm_term", "utm_content", "ref",
     "source", "fbclid", "gclid", "mc_cid", "mc_eid"}

SKIP_EXTS == {".zip", ".tar.gz", ".exe", ".dmg", ".png", ".jpg", ".gif", ".svg", ".ico"}

REGISTRY_DOMAINS == {"npmjs.com", "pypi.org", "crates.io", "pkg.go.dev", "rubygems.org", "hex.pm"}

BLOG_DOMAINS == {"dev.to", "medium.com", "hashnode.dev"}

-----------------------------------------------------------------------------
(* scraper/queue.py: the pure functions.                                   *)

\* A normalize_url that keeps the path as written: path = parsed.path or "/".
normalize_url_keep_slash(url) ==
    LET parsed == urlparse(url)
        scheme == Lower(parsed.scheme)
        netloc0 == Lower(parsed.netloc)
        netloc == IF scheme = "https" /\ EndsWith(netloc0, ":443")
                  THEN SubSeq(netloc0, 1, Len(netloc0) - 4)
                  ELSE IF scheme = "http" /\ EndsWith(netloc0, ":80")
                  THEN SubSeq(netloc0, 1, Len(netloc0) - 3)
                  ELSE netloc0
        path == IF parsed.path = "" THEN "/" ELSE parsed.path
        NotTracking(kv) == Lower(kv[1]) \notin TRACKING_PARAMS
        filtered == SelectSeq(parse_qs(parsed.query), NotTracking)
        query == IF parsed.query # <<>> /\ filtered # <<>>
                 THEN Join(urlencode(filtered), "&") ELSE ""
    IN  urlunparse(scheme, netloc, path, parsed.params, query, "")

normalize_url(url) ==
    LET parsed == urlparse(url)
        scheme == Lower(parsed.scheme)
        netloc0 == Lower(parsed.netloc)
        netloc == IF scheme = "https" /\ EndsWith(netloc0, ":443")
                  THEN SubSeq(netloc0, 1, Len(netloc0) - 4)
                  ELSE IF scheme = "http" /\ EndsWith(netloc0, ":80")
                  THEN SubSeq(netloc0, 1, Len(netloc0) - 3)
                  ELSE netloc0
        stripped == RStripSlash(parsed.path)
        path == IF stripped = "" THEN "/" ELSE stripped
        NotTracking(kv) == Lower(kv[1]) \notin TRACKING_PARAMS
        filtered == SelectSeq(parse_qs(parsed.query), NotTracking)
        query == IF parsed.query # <<>> /\ filtered # <<>>
                 THEN Join(urlencode(filtered), "&") ELSE ""
    IN  urlunparse(scheme, netloc, path, parsed.params, query, "")

score_url(url) ==
    LET parsed == urlparse(url)
        domain == Lower(parsed.netloc)
        path == Lower(parsed.path)
    IN  IF \E p \in {"/api/", "/reference/"} : Contains(path, p) THEN SCORE_OFFICIAL_API
        ELSE IF \E p \in DOC_PATH_PATTERNS : Contains(path, p) THEN SCORE_OFFICIAL_GUIDE
        ELSE IF Contains(domain, "raw.githubusercontent.com") THEN SCORE_GITHUB_README
        ELSE IF Contains(domain, "github.com")
                /\ (Contains(path, "/wiki/") \/ Contains(path, "/blob/")) THEN SCORE_WIKI
        ELSE IF \E reg \in REGISTRY_DOMAINS : Contains(domain, reg) THEN SCORE_REGISTRY
        ELSE IF \E blog \in BLOG_DOMAINS : Contains(domain, blog) THEN SCORE_BLOG
        ELSE IF Contains(domain, "stackoverflow.com") THEN SCORE_STACKOVERFLOW
        ELSE IF Contains(domain, "web.archive.org") THEN SCORE_WAYBACK
        ELSE IF \E p \in DOC_PATH_PATTERNS : Contains(path, p) THEN SCORE_OFFICIAL_GUIDE
        ELSE SCORE_UNKNOWN

should_skip_url(url) ==
    LET parsed == urlparse(url)
        path == Lower(parsed.path)
        path_with_slash == IF EndsWith(path, "/") THEN path ELSE path \o "/"
    IN  IF path = "" \/ path = "/"
        THEN parsed.fragment # "" /\ parsed.query = <<>>
        ELSE IF \E p \in SKIP_PATH_PATTERNS : Contains(path_with_slash, p) THEN TRUE
        ELSE IF parsed.scheme \notin {"http", "https", ""} THEN TRUE
        ELSE \E ext \in SKIP_EXTS : EndsWith(path, ext)

-----------------------------------------------------------------------------
(* The URLs the callers of the model pass in, and the three pure functions *)
(* tabulated over them (each table entry is the function's own result).    *)

QU1 == Url("https", "docs.a.com", "/api", <<>>, "")
QU2 == Url("HTTPS", "Docs.A.com:443", "/api/", << <<"utm_source", "x">> >>, "top")
QU3 == Url("https", "docs.a.com", "/docs/guide", <<>>, "")
QU4 == Url("https", "docs.a.com", "/", <<>>, "")
QU5 == Url("https", "docs.a.com", "", <<>>, "top")
QU6 == Url("https", "docs.a.com", "/blog/post", <<>>, "")

QueueUrls == {QU1, QU2, QU3, QU4, QU5, QU6}


\* The site run_scraper crawls: its pages, and a link that is skipped.
RU1 == Url("https", "docs.a.com", "/docs", <<>>, "")
RU1f == Url("https", "Docs.A.com", "/docs/", <<>>, "intro")
RU2 == Url("https", "docs.a.com", "/docs/a", <<>>, "")
RU3 == Url("https", "docs.a.com", "/docs/b", <<>>, "")
RU4 == Url("https", "docs.a.com", "/admin/x", <<>>, "")
RU5 == Url("https", "docs.a.com", "/docs/c/", <<>>, "")

\* Two pages of the site with the same long text.
RL1 == Url("https", "docs.a.com", "/docs/v1/guide", <<>>, "")
RL2 == Url("https", "docs.a.com", "/docs/v2/guide", <<>>, "")

\* A page that links to a host name with an empty label, and a URL of that host.
RE1 == Url("https", "docs.a.com", "/docs/links", <<>>, "")
RX1 == Url("https", "docs..a.com", "/docs/x", <<>>, "")
RV1 == Url("https", "docs.a.com", "/docs/install", <<>>, "")
RV2 == Url("https", "docs.a.com", "/docs/upgrade", <<>>, "")

RunUrls == {RU1, RU1f, RU2, RU3, RU4, RU5, QU6, RL1, RL2, RE1, RX1, RV1, RV2}

\* The URLs should_skip_url is called on by itself: an empty or root path
\* under every scheme, with and without a query and a fragment, and the paths
\* that hold a skip pattern or a blocked extension, or come close to one.
SkipForms ==
    {Url(scheme, "docs.a.com", path, query, fragment) :
        scheme \in {"https", "ftp", ""}, path \in {"", "/"},
        query \in {<<>>, << <<"page", "2">> >>}, fragment \in {"", "top"}} \cup
    {Url(scheme, "docs.a.com", path, <<>>, "") :
        scheme \in {"https", "ftp", ""},
        path \in {"/docs/guide", "/blog", "/Blog/post", "/weblog", "/docs/file.zip",
                  "/docs/logo.PNG", "/docs/zip"}}

\* The URLs normalize_url is called on by itself: two pages written with and
\* without a trailing slash, a fragment, tracking parameters and capitals in
\* scheme and host.
NormalizeForms ==
    {Url(scheme, netloc, path, query, fragment) :
        scheme \in {"https", "HTTPS"}, netloc \in {"docs.a.com", "Docs.A.com"},
        path \in {"", "/", "/docs/guide", "/docs/guide/"},
        query \in {<<>>, << <<"utm_source", "x">> >>, << <<"page", "2">> >>,
                   << <<"ref", "home">>, <<"page", "2">>, <<"fbclid", "f">> >>},
        fragment \in {"", "top"}}

KnownUrls == QueueUrls \cup RunUrls \cup SkipForms \cup NormalizeForms

normalize_url_memo == [u \in KnownUrls |-> normalize_url(u)]
score_url_memo == [u \in KnownUrls |-> score_url(u)]
should_skip_url_memo == [u \in KnownUrls |-> should_skip_url(u)]

url_string_memo == [u \in KnownUrls |-> UrlString(u)]

Normalized(url) == normalize_url_memo[url]
AutoScore(url) == score_url_memo[url]
Skipped(url) == should_skip_url_memo[url]

-----------------------------------------------------------------------------
(* scraper/queue.py: ScoredURL and URLQueue.  The pending dict _urls keeps *)
(* insertion order, which decides ties of the stable sort in get_batch, so *)
(* it is held as the sequence of its items.  An optional score is <<>>     *)
(* (None) or <<n>>.                                                        *)

ScoredURL(url, score, source, depth) ==
    [url |-> url, score |-> score, source |-> source, depth |-> depth]

URLQueue == [urls |-> <<>>, fetched |-> {}]

Keys(q) == {q.urls[i].norm : i \in 1..Len(q.urls)}

IndexOf(q, n) == CHOOSE i \in 1..Len(q.urls) : q.urls[i].norm = n

Stored(q, n) == q.urls[IndexOf(q, n)].entry

\* add without the "already fetched" test.
add_ignoring_fetched(q, url, score, source, depth) ==
    IF Skipped(url) THEN [queue |-> q, ret |-> FALSE]
    ELSE LET normalized == Normalized(url)
             sc == IF score = <<>> THEN AutoScore(url) ELSE score[1]
             entry == ScoredURL(url, sc, source, depth)
         IN  IF normalized \in Keys(q)
             THEN [queue |->
                     IF sc > Stored(q, normalized).score
                     THEN [q EXCEPT !.urls[IndexOf(q, normalized)].entry = entry]
                     ELSE q,
                   ret |-> FALSE]
             ELSE [queue |->
                     [q EXCEPT !.urls = Append(@, [norm |-> normalized, entry |-> entry])],
                   ret |-> TRUE]

\* add without the "already pending" test: every accepted URL is appended.
add_no_dedup(q, url, score, source, depth) ==
    IF Skipped(url) \/ Normalized(url) \in q.fetched THEN [queue |-> q, ret |-> FALSE]
    ELSE LET sc == IF score = <<>> THEN AutoScore(url) ELSE score[1]
         IN  [queue |-> [q EXCEPT !.urls = Append(@, [norm |-> Normalized(url),
                                                      entry |-> ScoredURL(url, sc, source, depth)])],
              ret |-> TRUE]

\* add replacing the stored entry on an equal score too (>= for >).
add_replace_on_equal(q, url, score, source, depth) ==
    IF Skipped(url) \/ Normalized(url) \in q.fetched THEN [queue |-> q, ret |-> FALSE]
    ELSE LET normalized == Normalized(url)
             sc == IF score = <<>> THEN AutoScore(url) ELSE score[1]
             entry == ScoredURL(url, sc, source, depth)
         IN  IF normalized \in Keys(q)
             THEN [queue |->
                     IF sc >= Stored(q, normalized).score
                     THEN [q EXCEPT !.urls[IndexOf(q, normalized)].entry = entry]
                     ELSE q,
                   ret |-> FALSE]
             ELSE [queue |->
                     [q EXCEPT !.urls = Append(@, [norm |-> normalized, entry |-> entry])],
                   ret |-> TRUE]

\* add replacing the stored entry whenever the scores differ (!= for >).
add_replace_on_different(q, url, score, source, depth) ==
    IF Skipped(url) \/ Normalized(url) \in q.fetched THEN [queue |-> q, ret |-> FALSE]
    ELSE LET normalized == Normalized(url)
             sc == IF score = <<>> THEN AutoScore(url) ELSE score[1]
             entry == ScoredURL(url, sc, source, depth)
         IN  IF normalized \in Keys(q)
             THEN [queue |->
                     IF sc # Stored(q, normalized).score
                     THEN [q EXCEPT !.urls[IndexOf(q, normalized)].entry = entry]
                     ELSE q,
                   ret |-> FALSE]
             ELSE [queue |->
                     [q EXCEPT !.urls = Append(@, [norm |-> normalized, entry |-> entry])],
                   ret |-> TRUE]

add(q, url, score, source, depth) ==
    IF Skipped(url) THEN [queue |-> q, ret |-> FALSE]
    ELSE LET normalized == Normalized(url)
         IN  IF normalized \in q.fetched THEN [queue |-> q, ret |-> FALSE]
             ELSE LET sc == IF score = <<>> THEN AutoScore(url) ELSE score[1]
                      entry == ScoredURL(url, sc, source, depth)
                  IN  IF normalized \in Keys(q)
                      THEN [queue |->
                              IF sc > Stored(q, normalized).score
                              THEN [q EXCEPT !.urls[IndexOf(q, normalized)].entry = entry]
                              ELSE q,
                            ret |-> FALSE]
                      ELSE [queue |->
                              [q EXCEPT !.urls = Append(@, [norm |-> normalized, entry |-> entry])],
                            ret |-> TRUE]

RECURSIVE add_many(_, _, _, _, _)
add_many(q, urls, score, source, depth) ==
    IF urls = <<>> THEN [queue |-> q, ret |-> 0]
    ELSE Only({Only({[queue |-> rest.queue, ret |-> rest.ret + (IF first.ret THEN 1 ELSE 0)] :
                        rest \in {add_many(first.queue, Tail(urls), score, source, depth)}}) :
               first \in {add(q, urls[1], score, source, depth)}})

\* mark_fetched without the pop from the pending map.
mark_fetched_keep(q, url) ==
    [urls |-> q.urls, fetched |-> q.fetched \cup {Normalized(url)}]

\* mark_fetched popping the URL as it is spelled, not its normalized key.
mark_fetched_as_spelled(q, url) ==
    LET Other(item) == item.norm # url_string_memo[url]
    IN  [urls |-> SelectSeq(q.urls, Other), fetched |-> q.fetched \cup {Normalized(url)}]

mark_fetched(q, url) ==
    LET normalized == Normalized(url)
        Other(item) == item.norm # normalized
    IN  [urls |-> SelectSeq(q.urls, Other), fetched |-> q.fetched \cup {normalized}]

PathLen(entry) == Len(urlparse(entry.url).path)

\* The sort key without the path length.
SortsBefore_score_only(a, b) == a.score > b.score

\* The sort key (-score, len(path)) of get_batch: a sorts strictly before b.
SortsBefore(a, b) ==
    a.score > b.score \/ (a.score = b.score /\ PathLen(a) < PathLen(b))

\* list.sort is stable: an entry goes behind every entry it does not sort before.
InsertSorted(sorted, x) ==
    LET before == {i \in 1..Len(sorted) : SortsBefore(x, sorted[i])}
        at == IF before = {} THEN Len(sorted) + 1
              ELSE CHOOSE i \in before : \A j \in before : i <= j
    IN  SubSeq(sorted, 1, at - 1) \o <<x>> \o SubSeq(sorted, at, Len(sorted))

RECURSIVE SortEntries(_)
SortEntries(entries) ==
    IF entries = <<>> THEN <<>>
    ELSE Only({InsertSorted(sorted, entries[Len(entries)]) :
               sorted \in {SortEntries(SubSeq(entries, 1, Len(entries) - 1))}})

\* remaining[:size], Python's slice (a negative size drops from the end).
Slice(s, size) ==
    IF size >= 0 THEN SubSeq(s, 1, Min(size, Len(s)))
    ELSE SubSeq(s, 1, IF Len(s) + size > 0 THEN Len(s) + size ELSE 0)

Remaining(q) ==
    LET NotFetched(item) == item.norm \notin q.fetched
        items == SelectSeq(q.urls, NotFetched)
    IN  [i \in 1..Len(items) |-> items[i].entry]

get_batch(q, size) ==
    Only({Slice(sorted, size) : sorted \in {Only({SortEntries(remaining) :
                                                    remaining \in {Remaining(q)}})}})

RECURSIVE mark_batch_fetched(_, _)
mark_batch_fetched(q, batch) ==
    IF batch = <<>> THEN q
    ELSE Only({mark_batch_fetched(q1, Tail(batch)) : q1 \in {mark_fetched(q, batch[1].url)}})

pending_count(q) == Cardinality({i \in 1..Len(q.urls) : q.urls[i].norm \notin q.fetched})

fetched_count(q) == Cardinality(q.fetched)

total_count(q) == Len(q.urls) + Cardinality(q.fetched)

-----------------------------------------------------------------------------
(* scraper/config.py: ScrapeConfig, and the counters of run_scraper.       *)

\* The resolution of the model's clock; durations are kept in ticks.
TicksPerSecond == 4

\* rate_limit_delay is 0.5 s and is held in ticks; retry_backoff_base is in seconds.
ScrapeConfig(max_urls, concurrency) ==
    [max_urls |-> max_urls, concurrency |-> concurrency, max_retries |-> 3,
     retry_backoff_base |-> 2, rate_limit_delay |-> TicksPerSecond \div 2,
     min_content_length |-> 500]

\* PageCache(cache_dir, ttl, max_entries) over an empty directory: files maps
\* the URL of each entry file to its cached_at and expires_at, evicted is
\* history, the entries the latest put unlinked as the oldest.
PageCache(ttl, max_entries) ==
    [ttl |-> ttl, max_entries |-> max_entries, files |-> <<>>, now |-> 0, evicted |-> {}]

\* A Fetcher that no task is using.
FetchIdle ==
    /\ fetcher = [cache |-> <<>>, domain_locks |-> <<>>, domain_last_request |-> <<>>,
                  semaphore |-> 0]
    /\ tasks = <<>>
    /\ returned = <<>>
    /\ clock = [tracked |-> FALSE, now |-> 0]

NoStats ==
    [urls_discovered |-> 0, urls_fetched |-> 0, urls_cached |-> 0, urls_failed |-> 0,
     soft_failures |-> 0, urls_skipped_disallowed |-> 0, urls_skipped_dedup |-> 0]

-----------------------------------------------------------------------------
(* URLQueue driven by an arbitrary caller.                                 *)

MaxBatch == 2

\* The (score, source, depth) arguments the callers pass.
CallArgs == {[score |-> <<>>, source |-> "initial", depth |-> 0],
             [score |-> <<2>>, source |-> "sitemap", depth |-> 0],
             [score |-> <<5>>, source |-> "crawled:https://docs.a.com/", depth |-> 1]}

UrlLists == {<<QU1, QU2>>, <<QU3, QU6, QU3>>, <<QU5, QU4, QU2>>}

NoCall == [op |-> "init", arg |-> <<>>, ret |-> <<>>]

\* The score an add compares and stores.
EffectiveScore(url, score) == IF score = <<>> THEN AutoScore(url) ELSE score[1]

Offer(off, q, url, score) ==
    LET n == Normalized(url)
        sc == EffectiveScore(url, score)
    IN  IF Skipped(url) \/ n \in q.fetched THEN off
        ELSE IF n \in DOMAIN off
             THEN [off EXCEPT ![n] = IF sc > @ THEN sc ELSE @]
             ELSE off @@ (n :> sc)

\* The history is kept for the URLs that can still be pending.
Forget(off, q) == [n \in DOMAIN off \ q.fetched |-> off[n]]

RECURSIVE OfferAll(_, _, _, _)
OfferAll(off, q, urls, score) ==
    IF urls = <<>> THEN off
    ELSE Only({OfferAll(off1, q, Tail(urls), score) : off1 \in {Offer(off, q, urls[1], score)}})

\* Nothing has been asked of the network: no robots.txt rule has been served,
\* no URL has been requested against a served rule, and no request has got
\* anything but an HTTP 500.
\* Nor has the fetcher made its HTTP client, has a fetch_one call raised, or
\* has close() been awaited (open_at_close: the URLs whose requests were in
\* flight when it was), or has phase 3 probed a changelog candidate (probes:
\* the <<url, outcome>> of its fetch_one calls in the order it made them, kept
\* when the history is one that logs them).
NoTraffic ==
    [served |-> {}, crossed |-> {}, all_500 |-> TRUE, client |-> FALSE, raised |-> "",
     closes |-> 0, open_at_close |-> {}, logs_probes |-> FALSE, probes |-> <<>>]

\* The same, in a history that logs the probes of phase 3.
NoTrafficLogged == [NoTraffic EXCEPT !.logs_probes = TRUE]

\* run_scraper has not been called.
RunIdle ==
    /\ phase = "idle"
    /\ config = ScrapeConfig(0, 1)
    /\ initial_urls = <<>>
    /\ disallowed_paths = <<>>
    /\ all_content = <<>>
    /\ seen_texts = <<>>
    /\ stats = NoStats
    /\ batch_num = 0
    /\ docs_domains = {}
    /\ detected_version = <<>>
    /\ changelog_entries = <<>>
    /\ network = NoTraffic
    /\ FetchIdle

QInit ==
    /\ queue = URLQueue
    /\ last = NoCall
    /\ offered = <<>>
    /\ added = {}
    /\ RunIdle
    /\ page_cache = PageCache(0, 0)

Add ==
    \E url \in QueueUrls, c \in CallArgs :
        LET r == add(queue, url, c.score, c.source, c.depth)
        IN  /\ queue' = r.queue
            /\ last' = [op |-> "add",
                        arg |-> [url |-> url, score |-> c.score, source |-> c.source,
                                 depth |-> c.depth],
                        ret |-> r.ret]
            /\ offered' = Offer(offered, queue, url, c.score)
            /\ added' = IF r.ret THEN added \cup {Normalized(url)} ELSE added
            /\ UNCHANGED <<rvars, fvars>>

AddMany ==
    \E urls \in UrlLists, c \in CallArgs :
        LET r == add_many(queue, urls, c.score, c.source, c.depth)
        IN  /\ queue' = r.queue
            /\ last' = [op |-> "add_many",
                        arg |-> [urls |-> urls, score |-> c.score, source |-> c.source,
                                 depth |-> c.depth],
                        ret |-> r.ret]
            /\ offered' = OfferAll(offered, queue, urls, c.score)
            /\ added' = added \cup (Keys(r.queue) \ Keys(queue))
            /\ UNCHANGED <<rvars, fvars>>

MarkFetched ==
    \E url \in QueueUrls :
        /\ queue' = mark_fetched(queue, url)
        /\ last' = [op |-> "mark_fetched", arg |-> [url |-> url], ret |-> <<>>]
        /\ offered' = Forget(offered, queue')
        /\ UNCHANGED <<added, rvars, fvars>>

\* A get_batch that hands its entries out: what it returns is marked fetched.
GetBatch_marking ==
    \E size \in 0..MaxBatch :
        LET batch == get_batch(queue, size)
        IN  /\ queue' = mark_batch_fetched(queue, batch)
            /\ last' = [op |-> "get_batch", arg |-> [size |-> size], ret |-> batch]
            /\ offered' = Forget(offered, queue')
            /\ UNCHANGED <<added, rvars, fvars>>

GetBatch ==
    \E size \in 0..MaxBatch :
        /\ last' = [op |-> "get_batch", arg |-> [size |-> size], ret |-> get_batch(queue, size)]
        /\ UNCHANGED <<queue, offered, added, rvars, fvars>>

MarkBatchFetched ==
    \E size \in 0..MaxBatch :
        LET batch == get_batch(queue, size)
        IN  /\ queue' = mark_batch_fetched(queue, batch)
            /\ last' = [op |-> "mark_batch_fetched", arg |-> [batch |-> batch], ret |-> <<>>]
            /\ offered' = Forget(offered, queue')
            /\ UNCHANGED <<added, rvars, fvars>>

QNext == Add \/ AddMany \/ MarkFetched \/ GetBatch \/ MarkBatchFetched

SpecQueue == QInit /\ [][QNext]_vars

\* A caller that adds lists of URLs and marks single URLs fetched.
MNext == AddMany \/ MarkFetched

SpecMany == QInit /\ [][MNext]_vars

\* should_skip_url(url) called by itself.
ShouldSkipUrl ==
    \E url \in SkipForms :
        /\ last' = [op |-> "should_skip_url", arg |-> [url |-> url], ret |-> Skipped(url)]
        /\ UNCHANGED <<queue, offered, added, rvars, fvars>>

\* normalize_url(url) called by itself.
NormalizeUrl ==
    \E url \in NormalizeForms :
        /\ last' = [op |-> "normalize_url", arg |-> [url |-> url], ret |-> Normalized(url)]
        /\ UNCHANGED <<queue, offered, added, rvars, fvars>>

\* URLQueue().add(url): the URL is offered to a new queue.
AddToNew ==
    \E url \in SkipForms :
        \E r \in {add(URLQueue, url, <<>>, "", 0)} :
            /\ queue' = r.queue
            /\ last' = [op |-> "add",
                        arg |-> [url |-> url, score |-> <<>>, source |-> "", depth |-> 0],
                        ret |-> r.ret]
            /\ offered' = <<>>
            /\ added' = IF r.ret THEN {Normalized(url)} ELSE {}
            /\ UNCHANGED <<rvars, fvars>>

UNext == ShouldSkipUrl \/ NormalizeUrl \/ AddToNew

\* The pure functions of queue.py, each called on the URLs it tells apart.
SpecUrl == QInit /\ [][UNext]_vars

-----------------------------------------------------------------------------
(* Properties of URLQueue, checked under SpecQueue.                        *)

\* C3: after any sequence of add, add_many, get_batch, mark_fetched and
\* mark_batch_fetched calls, no normalized URL is both a key of the pending
\* map and a member of the fetched set.
C3_PendingFetchedDisjoint == Keys(queue) \cap queue.fetched = {}

\* An add has just been refused for a fetched URL while other URLs are pending.
C3_Witness ==
    /\ last.op = "add"
    /\ Normalized(last.arg.url) \in queue.fetched
    /\ Keys(queue) # {}

\* C4: once a normalized URL is fetched it stays fetched and is never pending
\* again; an add of a URL with that normalized form returns false, and an
\* add_many counts only the URLs it made newly pending.
C4_FetchedIsTerminal ==
    [][/\ \A n \in queue.fetched : n \in queue'.fetched /\ n \notin Keys(queue')
       /\ (last'.op = "add" /\ Normalized(last'.arg.url) \in queue.fetched
             => last'.ret = FALSE /\ queue' = queue)
       /\ (last'.op = "add_many"
             => last'.ret = Cardinality(Keys(queue') \ Keys(queue)))]_vars

\* A URL was added, fetched, and then offered again under another spelling.
C4_Witness ==
    /\ last.op = "add"
    /\ last.arg.url = QU2
    /\ Normalized(QU1) \in queue.fetched
    /\ Normalized(QU1) \in added
    /\ last.ret = FALSE

\* C5: the first add of a non-skipped URL whose normalized form is neither
\* pending nor fetched returns true; every later add of a URL with the same
\* normalized form returns false; the pending map holds exactly one entry for
\* a normalized form that was added and is not yet fetched.
C5_AddTwice ==
    [][last'.op = "add" =>
         LET url == last'.arg.url
             n == Normalized(url)
         IN  /\ (~Skipped(url) /\ n \notin Keys(queue) /\ n \notin queue.fetched
                   => last'.ret = TRUE)
             /\ (n \in added => last'.ret = FALSE)
             /\ \A m \in added' \ queue'.fetched :
                    Cardinality({i \in 1..Len(queue'.urls) : queue'.urls[i].norm = m}) = 1]_vars

\* QU1 is pending and the add of its other spelling QU2 has returned false.
C5_Witness ==
    /\ last.op = "add"
    /\ last.arg.url = QU2
    /\ last.ret = FALSE
    /\ Normalized(QU2) \in Keys(queue)
    /\ Stored(queue, Normalized(QU2)).url = QU1

\* The entry an add call offers.
Offered(arg) ==
    [url |-> arg.url, score |-> IF arg.score = <<>> THEN score_url(arg.url) ELSE arg.score[1],
     source |-> arg.source, depth |-> arg.depth]

\* C6 as stated: whenever add is called for a normalized URL that is already
\* pending, the stored entry becomes the offered one iff the offered score is
\* strictly greater than the stored score, and add returns false.
C6_ReplaceIffGreater_AnyUrl ==
    [][last'.op = "add" /\ Normalized(last'.arg.url) \in Keys(queue) =>
         LET n == Normalized(last'.arg.url)
             new == Offered(last'.arg)
         IN  /\ last'.ret = FALSE
             /\ n \in Keys(queue')
             /\ Stored(queue', n) =
                  IF new.score > Stored(queue, n).score THEN new ELSE Stored(queue, n)]_vars

\* C6 amended: the same for a URL should_skip does not reject; and the stored
\* score of every pending URL is the maximum of the scores offered for it by
\* adds of non-skipped URLs.
C6_ReplaceIffGreater ==
    [][/\ (last'.op = "add" /\ ~Skipped(last'.arg.url)
             /\ Normalized(last'.arg.url) \in Keys(queue) =>
            LET n == Normalized(last'.arg.url)
                new == Offered(last'.arg)
            IN  /\ last'.ret = FALSE
                /\ n \in Keys(queue')
                /\ Stored(queue', n) =
                     IF new.score > Stored(queue, n).score THEN new ELSE Stored(queue, n))
       /\ \A n \in Keys(queue') : n \in DOMAIN offered' /\ Stored(queue', n).score = offered'[n]
      ]_vars

\* QU1 was pending with a lower score and the add of QU2 with score 5 replaced it.
C6_Witness ==
    /\ last.op = "add"
    /\ last.arg.url = QU2
    /\ last.arg.score = <<5>>
    /\ last.ret = FALSE
    /\ Normalized(QU1) \in added
    /\ Normalized(QU2) \in Keys(queue)
    /\ Stored(queue, Normalized(QU2)) = Offered(last.arg)

\* The documented order of a batch: score descending, then path length ascending.
RanksBefore(a, b) ==
    a.score > b.score \/ (a.score = b.score /\ Len(a.url.path) < Len(b.url.path))

\* C7: get_batch(size) returns exactly min(size, pending_count) entries, every
\* one of them pending and not fetched, in the documented order, and no
\* pending entry left out ranks strictly before a returned one.
C7_GetBatch ==
    last.op = "get_batch" =>
        LET batch == last.ret
            pending == {queue.urls[i].entry : i \in 1..Len(queue.urls)}
        IN  /\ Len(batch) = Min(last.arg.size, pending_count(queue))
            /\ \A i \in 1..Len(batch) :
                   /\ Normalized(batch[i].url) \in Keys(queue)
                   /\ Normalized(batch[i].url) \notin queue.fetched
                   /\ Stored(queue, Normalized(batch[i].url)) = batch[i]
            /\ \A i, j \in 1..Len(batch) : i < j => ~RanksBefore(batch[j], batch[i])
            /\ \A i, j \in 1..Len(batch) : i # j => batch[i] # batch[j]
            /\ \A e \in pending \ SeqToSet(batch) :
                   \A i \in 1..Len(batch) : ~RanksBefore(e, batch[i])

\* Three URLs are pending, one is fetched, and a batch of two was returned whose
\* entries tie on score and are ordered by path length.
C7_Witness ==
    /\ last.op = "get_batch"
    /\ last.arg.size = 2
    /\ pending_count(queue) = 3
    /\ queue.fetched # {}
    /\ Len(last.ret) = 2
    /\ last.ret[1].score = last.ret[2].score
    /\ Len(last.ret[1].url.path) < Len(last.ret[2].url.path)
    /\ queue.urls[1].entry = last.ret[2]

\* C8: in every reachable state pending_count + fetched_count = total_count.
C8_CountsAgree ==
    pending_count(queue) + fetched_count(queue) = total_count(queue)

\* Two URLs are pending and one has been fetched after being pending.
C8_Witness ==
    /\ pending_count(queue) = 2
    /\ fetched_count(queue) = 1
    /\ queue.fetched \subseteq added

-----------------------------------------------------------------------------
(* The web as run_scraper sees it.  A response body is held as what the    *)
(* external parsers make of it: a page as its text and its links, a        *)
(* sitemap as its <loc> URLs, a robots.txt as its Sitemap directives and   *)
(* its universal-agent Disallow rules.                                     *)

NoContent == [text |-> "", links |-> <<>>, locs |-> <<>>, sitemaps |-> <<>>, disallowed |-> <<>>]

Page(text, links) == [NoContent EXCEPT !.text = text, !.links = links]
Sitemap(locs) == [NoContent EXCEPT !.locs = locs]
Robots(sitemaps, disallowed) == [NoContent EXCEPT !.sitemaps = sitemaps, !.disallowed = disallowed]

SitemapDocs == Url("https", "docs.a.com", "/sitemap-docs.xml", <<>>, "")

\* A text of 5009 characters: 834 times "alpha ", then "omega".  Its first
\* 5000 characters end in the middle of the last "alpha".
LongText == Repeat("alpha ", 834) \o "omega"

\* What docs.a.com serves under each path ("/docs/b" repeats the text of
\* "/docs/a", and the guide is the same under "/docs/v1" and "/docs/v2").  Two
\* pages name versions, "/changelog" and "/CHANGELOG.md" are changelogs whose
\* newest entries differ, and "/releases" is a page without a version heading.
Site ==
    [path \in {"/docs", "/docs/a", "/docs/b", "/admin/x", "/docs/c", "/docs/v1/guide",
               "/docs/v2/guide", "/docs/links", "/docs/install", "/docs/upgrade",
               "/changelog", "/CHANGELOG.md", "/releases", "/sitemap.xml",
               "/sitemap-docs.xml", "/robots.txt"} |->
        CASE path = "/docs" -> Page("intro guide", <<RU2, RU3, RU1f, QU6>>)
          [] path = "/docs/a" -> Page("alpha beta gamma", <<RU3, RU4>>)
          [] path = "/docs/b" -> Page("Gamma beta  alpha beta", <<RU1, RU5>>)
          [] path = "/admin/x" -> Page("admin", <<RU5>>)
          [] path = "/docs/c" -> Page("delta", <<RU2>>)
          [] path = "/docs/v1/guide" -> Page(LongText, <<>>)
          [] path = "/docs/v2/guide" -> Page(LongText, <<>>)
          [] path = "/docs/links" -> Page("links elsewhere", <<RX1, RU2>>)
          [] path = "/docs/install" ->
                Page("install v3.0.0 or better v3.1.0 since v3.1.0 is current", <<>>)
          [] path = "/docs/upgrade" -> Page("upgrade from Version 2.4 today", <<>>)
          [] path = "/changelog" -> Page("## v3.2.0 new parser", <<>>)
          [] path = "/CHANGELOG.md" -> Page("# Version 3.1.0 fixes", <<>>)
          [] path = "/releases" -> Page("releases are listed under v3.2.0", <<>>)
          [] path = "/sitemap.xml" -> Sitemap(<<RU5, RU4, QU6>>)
          [] path = "/sitemap-docs.xml" -> Sitemap(<<RU3>>)
          [] path = "/robots.txt" -> Robots(<<SitemapDocs>>, <<"/admin/", "/CHANGELOG*">>)]

Body(url) ==
    LET path == RStripSlash(url.path)
    IN  IF path \in DOMAIN Site THEN Site[path] ELSE NoContent

-----------------------------------------------------------------------------
(* scraper/fetcher.py: FetchResult.  In the crawl loop a fetch is its      *)
(* result; Fetcher.fetch_one is modelled step by step further down.        *)

FetchResult(url, content, status_code, success, error, from_cache, fetch_time_ms) ==
    [url |-> url, content |-> content, status_code |-> status_code, success |-> success,
     error |-> error, from_cache |-> from_cache, fetch_time_ms |-> fetch_time_ms]

\* The outcomes of one fetch_one call that run_scraper tells apart: a page
\* from the network, a page from the cache, an HTTP 500, and a body served
\* with HTTP 200 that fetch_one calls a soft failure (one shorter than
\* min_content_length, say).
OutcomeKinds == {"ok", "cached", "failed", "soft"}

\* A fetch_one that reports an HTTP 500 as a soft failure.
ResultOf_soft_500(url, kind) ==
    CASE kind = "ok" -> FetchResult(url, Body(url), 200, TRUE, "", FALSE, 1)
      [] kind = "cached" -> FetchResult(url, Body(url), 200, TRUE, "", TRUE, 0)
      [] kind = "soft" -> FetchResult(url, Body(url), 200, FALSE, "soft_failure", FALSE, 1)
      [] kind = "failed" -> FetchResult(url, NoContent, 500, FALSE, "soft_failure", FALSE, 1)

ResultOf(url, kind) ==
    CASE kind = "ok" -> FetchResult(url, Body(url), 200, TRUE, "", FALSE, 1)
      [] kind = "cached" -> FetchResult(url, Body(url), 200, TRUE, "", TRUE, 0)
      [] kind = "soft" -> FetchResult(url, Body(url), 200, FALSE, "soft_failure", FALSE, 1)
      [] kind = "failed" -> FetchResult(url, NoContent, 500, FALSE, "HTTP 500", FALSE, 1)

-----------------------------------------------------------------------------
(* scraper/discovery.py and scraper/extractor.py, as far as run_scraper    *)
(* uses them.                                                              *)

find_sitemap_urls(base) ==
    <<Url(base.scheme, base.netloc, "/sitemap.xml", <<>>, ""),
      Url(base.scheme, base.netloc, "/sitemap-0.xml", <<>>, ""),
      Url(base.scheme, base.netloc, "/sitemap_index.xml", <<>>, ""),
      Url(base.scheme, base.netloc, "/robots.txt", <<>>, "")>>

parse_sitemap_urls(content) == content.locs

parse_robots_txt(content) == [sitemaps |-> content.sitemaps, disallowed |-> content.disallowed]

filter_doc_urls(urls) ==
    LET Keep(url) ==
            LET path == Lower(urlparse(url).path)
                path_with_slash == IF EndsWith(path, "/") THEN path ELSE path \o "/"
            IN  /\ ~\E p \in SKIP_PATH_PATTERNS : Contains(path_with_slash, p)
                /\ \/ \E p \in DOC_PATH_PATTERNS : Contains(path, p)
                   \/ \E ext \in {".md", ".html", ".htm", "/"} : EndsWith(path, ext)
    IN  SelectSeq(urls, Keep)

is_disallowed(url, rules) ==
    LET path == urlparse(url).path
    IN  \E i \in 1..Len(rules) :
            IF EndsWith(rules[i], "*")
            THEN StartsWith(path, SubSeq(rules[i], 1, Len(rules[i]) - 1))
            ELSE StartsWith(path, rules[i])

\* The first candidates; those for github.com come after the eighth.
find_changelog_urls(base) ==
    <<Url(base.scheme, base.netloc, "/changelog", <<>>, ""),
      Url(base.scheme, base.netloc, "/CHANGELOG", <<>>, ""),
      Url(base.scheme, base.netloc, "/CHANGELOG.md", <<>>, ""),
      Url(base.scheme, base.netloc, "/releases", <<>>, ""),
      Url(base.scheme, base.netloc, "/docs/changelog", <<>>, ""),
      Url(base.scheme, base.netloc, "/docs/releases", <<>>, ""),
      Url(base.scheme, base.netloc, "/whats-new", <<>>, ""),
      Url(base.scheme, base.netloc, "/blog/releases", <<>>, "")>>

extract_content(content, base_url) == [text |-> content.text, links |-> content.links]

\* text[:n]
Prefix(text, n) == SubSeq(text, 1, Min(n, Len(text)))

\* The texts content_similarity and str.split meet: those of the pages, whole
\* and cut to their first 5000 characters.
Texts ==
    {Site[path].text : path \in DOMAIN Site} \cup
    {Prefix(Site[path].text, 5000) : path \in DOMAIN Site}

\* text.split()
split_memo == [text \in Texts |-> Split(text)]

\* set(text.lower().split())
word_set_memo == [text \in Texts |-> SeqToSet(Split(Lower(text)))]

\* The word-set Jaccard similarity, as the fraction <<intersection, union>>.
content_similarity(text1, text2) ==
    LET words1 == word_set_memo[text1]
        words2 == word_set_memo[text2]
    IN  IF text1 = "" \/ text2 = "" THEN <<0, 1>>
        ELSE IF words1 = {} \/ words2 = {} THEN <<0, 1>>
        ELSE <<Cardinality(words1 \cap words2), Cardinality(words1 \cup words2)>>

\* similarity > 0.9
Above90(sim) == 10 * sim[1] > 9 * sim[2]

DigitChars == "0123456789"

IsDigit(c) == \E i \in 1..Len(DigitChars) : SubSeq(DigitChars, i, i) = c

\* The number of digits of s from position i on.
RECURSIVE DigitRun(_, _)
DigitRun(s, i) ==
    IF i <= Len(s) /\ IsDigit(SubSeq(s, i, i)) THEN 1 + DigitRun(s, i + 1) ELSE 0

\* What \d+\.\d+(?:\.\d+)? matches at the start of s, "" when it does not
\* match.  No text of the model has a pre-release suffix ("-rc.1").
VersionAt(s) ==
    LET major == DigitRun(s, 1)
        minor == IF major > 0 /\ major + 1 <= Len(s) /\ SubSeq(s, major + 1, major + 1) = "."
                 THEN DigitRun(s, major + 2) ELSE 0
        dot == major + minor + 2
        patch == IF minor > 0 /\ dot <= Len(s) /\ SubSeq(s, dot, dot) = "."
                 THEN DigitRun(s, dot + 1) ELSE 0
    IN  IF minor = 0 THEN ""
        ELSE IF patch = 0 THEN SubSeq(s, 1, major + minor + 1)
        ELSE SubSeq(s, 1, dot + patch)

\* w when the version pattern matches the whole of w, "" otherwise.
WholeVersion(w) == IF w # "" /\ VersionAt(w) = w THEN w ELSE ""

\* group(1) of the match of a pattern of _VERSION_PATTERNS that starts at
\* word i, "" when none does: "v1.2.3" and "version 1.2.3" in any case.  In
\* the texts of the model a version stands as a word of its own or after a
\* "v", and none has an "@".
VersionMention(words, i) ==
    LET w == words[i]
    IN  IF Len(w) >= 2 /\ Lower(SubSeq(w, 1, 1)) = "v"
               /\ WholeVersion(SubSeq(w, 2, Len(w))) # ""
        THEN SubSeq(w, 2, Len(w))
        ELSE IF Lower(w) \in {"version", "version:"} /\ i < Len(words)
        THEN WholeVersion(words[i + 1])
        ELSE ""

\* detect_version(text, topic): <<>> for None, else <<the version mentioned
\* most often, the earliest of those mentioned as often>>.
detect_version(text) ==
    LET words == split_memo[text]
        mentions == [i \in 1..Len(words) |-> VersionMention(words, i)]
        candidates == {mentions[i] : i \in 1..Len(words)} \ {""}
        version_counts(v) == Cardinality({i \in 1..Len(words) : mentions[i] = v})
        position(v) == CHOOSE i \in 1..Len(words) :
                           mentions[i] = v /\ \A j \in 1..(i - 1) : mentions[j] # v
        Before(v, w) ==
            \/ version_counts(v) > version_counts(w)
            \/ version_counts(v) = version_counts(w) /\ position(v) < position(w)
    IN  IF text = "" \/ candidates = {} THEN <<>>
        ELSE <<CHOOSE v \in candidates : \A w \in candidates \ {v} : Before(v, w)>>

detect_version_memo == [text \in Texts |-> detect_version(text)]

\* extract_changelog_entries(text).  The texts of the model are one line, so
\* the heading pattern, anchored at the start of a line, matches at the start
\* of the text or not at all: "#", "##" or "###", whitespace, an optional "v"
\* or "version" with optional whitespace, and the version.  No heading of the
\* model carries a date; the summary is what follows the version.
extract_changelog_entries(text) ==
    LET words == split_memo[text]
        Unprefixed(w) ==
            IF StartsWith(Lower(w), "version") THEN SubSeq(w, 8, Len(w))
            ELSE IF StartsWith(Lower(w), "v") THEN SubSeq(w, 2, Len(w))
            ELSE w
        at == IF Len(words) >= 2 /\ Unprefixed(words[2]) # "" THEN 2 ELSE 3
        version == IF at > Len(words) THEN ""
                   ELSE IF at = 2 THEN VersionAt(Unprefixed(words[2]))
                   ELSE VersionAt(words[3])
    IN  IF /\ Len(words) >= 2
           /\ words[1] \in {"#", "##", "###"}
           /\ StartsWith(text, words[1])
           /\ version # ""
        THEN <<[version |-> version, date |-> "",
                summary |-> Prefix(Join(SubSeq(words, at + 1, Len(words)), " "), 300)]>>
        ELSE <<>>

extract_changelog_entries_memo == [text \in Texts |-> extract_changelog_entries(text)]

-----------------------------------------------------------------------------
(* scraper/cli.py: run_scraper.                                            *)

MaxUrls == 3
MaxConcurrency == 2
MaxBatches == 6

Configs == {ScrapeConfig(m, c) : m \in 1..MaxUrls, c \in 1..MaxConcurrency}

SeedLists == {<<>>, <<RU1>>, <<RU4, RU1>>, <<RU2, RU3>>}

\* for url in initial_urls: queue.add(url, source="initial")
RECURSIVE SeedQueue(_, _)
SeedQueue(q, urls) ==
    IF urls = <<>> THEN q
    ELSE Only({SeedQueue(q1, Tail(urls)) : q1 \in {add(q, urls[1], <<>>, "initial", 0).queue}})

\* The scheme://netloc of every initial URL that has a netloc.
Origins(urls) ==
    {[scheme |-> urlparse(urls[i]).scheme, netloc |-> urls[i].netloc] :
        i \in {j \in 1..Len(urls) : urls[j].netloc # ""}}

\* The robots.txt branch: each Sitemap directive is fetched on its own.
RECURSIVE AddRobotsSitemaps(_, _, _)
AddRobotsSitemaps(q, sitemaps, kinds) ==
    IF sitemaps = <<>> THEN q
    ELSE LET sm_result == ResultOf(sitemaps[1], kinds[1])
         IN  Only({AddRobotsSitemaps(q1, Tail(sitemaps), Tail(kinds)) :
                   q1 \in {IF sm_result.success
                           THEN add_many(q, filter_doc_urls(parse_sitemap_urls(sm_result.content)),
                                         <<SCORE_SITEMAP_DOC>>, "sitemap", 0).queue
                           ELSE q}})

\* for result in sitemap_results: ... over d = [queue, disallowed_paths].
RECURSIVE ProcessSitemapResults(_, _, _)
ProcessSitemapResults(d, results, smkinds) ==
    IF results = <<>> THEN d
    ELSE LET result == results[1]
         IN  Only({ProcessSitemapResults(d1, Tail(results), smkinds) :
                   d1 \in {IF ~result.success THEN d
                           ELSE IF EndsWith(UrlString(result.url), "robots.txt")
                           THEN LET robots == parse_robots_txt(result.content)
                                IN  [queue |-> AddRobotsSitemaps(d.queue, robots.sitemaps, smkinds),
                                     disallowed_paths |-> d.disallowed_paths \o robots.disallowed]
                           ELSE [d EXCEPT !.queue =
                                    add_many(@, filter_doc_urls(parse_sitemap_urls(result.content)),
                                             <<SCORE_SITEMAP_DOC>>, "sitemap", 0).queue]}})

\* for link in extracted.links: queue.add(link, score=SCORE_OFFICIAL_GUIDE, ...)
RECURSIVE EnqueueLinks(_, _, _)
EnqueueLinks(q, links, source) ==
    IF links = <<>> THEN q
    ELSE Only({EnqueueLinks(q1, Tail(links), source) :
               q1 \in {add(q, links[1], <<SCORE_OFFICIAL_GUIDE>>, source, 1).queue}})

PageRecord(result, extracted) ==
    [url |-> result.url, word_count |-> Len(split_memo[extracted.text]),
     from_cache |-> result.from_cache]

\* "not detected_version": it is None or the empty string.
NotDetected(detected) == detected = <<>> \/ detected = <<"">>

\* A loop body in which the version of the latest page that names one wins.
DetectOnPage_latest_wins(detected, text) ==
    IF detect_version_memo[text] # <<>> THEN detect_version_memo[text] ELSE detected

\* if not detected_version: detected_version = detect_version(extracted.text, topic)
DetectOnPage(detected, text) ==
    IF NotDetected(detected) THEN detect_version_memo[text] ELSE detected

\* A loop body that crawls the links of a duplicate before it skips it.
ProcessCounted_links_of_duplicates(st1, result) ==
    IF ~result.success
        THEN IF result.error = "soft_failure"
             THEN [st1 EXCEPT !.stats.soft_failures = @ + 1]
             ELSE [st1 EXCEPT !.stats.urls_failed = @ + 1]
        ELSE LET extracted == extract_content(result.content, result.url)
                 is_dup == \E i \in 1..Len(st1.seen_texts) :
                               Above90(content_similarity(extracted.text, st1.seen_texts[i]))
                 crawled == EnqueueLinks(st1.queue, extracted.links,
                                         "crawled:" \o url_string_memo[result.url])
             IN  IF is_dup
                 THEN [st1 EXCEPT !.stats.urls_skipped_dedup = @ + 1, !.queue = crawled]
                 ELSE [st1 EXCEPT
                         !.seen_texts = Append(@, Prefix(extracted.text, 5000)),
                         !.detected_version = DetectOnPage(@, extracted.text),
                         !.all_content = Append(@, PageRecord(result, extracted)),
                         !.queue = crawled]

\* The body of "for result in results" after the fetched/cached counters, over
\* st1 = [queue, all_content, seen_texts, stats, detected_version].
ProcessCounted(st1, result) ==
    IF ~result.success
        THEN IF result.error = "soft_failure"
             THEN [st1 EXCEPT !.stats.soft_failures = @ + 1]
             ELSE [st1 EXCEPT !.stats.urls_failed = @ + 1]
        ELSE LET extracted == extract_content(result.content, result.url)
                 is_dup == \E i \in 1..Len(st1.seen_texts) :
                               Above90(content_similarity(extracted.text, st1.seen_texts[i]))
             IN  IF is_dup
                 THEN [st1 EXCEPT !.stats.urls_skipped_dedup = @ + 1]
                 ELSE [st1 EXCEPT
                         !.seen_texts = Append(@, Prefix(extracted.text, 5000)),
                         !.detected_version = DetectOnPage(@, extracted.text),
                         !.all_content = Append(@, PageRecord(result, extracted)),
                         !.queue = EnqueueLinks(@, extracted.links,
                                                "crawled:" \o url_string_memo[result.url])]

\* A loop body that counts a result as fetched after the failure test: failed
\* results are counted under their failure class alone.
ProcessResult_fetched_after_continue(st, result) ==
    LET counted == [st EXCEPT !.stats.urls_fetched = IF result.success THEN @ + 1 ELSE @,
                              !.stats.urls_cached = IF result.from_cache THEN @ + 1 ELSE @]
    IN  Only({ProcessCounted(st1, result) : st1 \in {counted}})

\* The body of "for result in results", over st = [queue, all_content, seen_texts, stats,
\* detected_version].
ProcessResult(st, result) ==
    LET counted == [st EXCEPT !.stats.urls_fetched = @ + 1,
                              !.stats.urls_cached = IF result.from_cache THEN @ + 1 ELSE @]
    IN  Only({ProcessCounted(st1, result) : st1 \in {counted}})

\* A loop that does not wait for the next batch: the links a result adds to
\* the queue are fetched at once, each ending in an HTTP 500, and their
\* results join those of the batch.
RECURSIVE ProcessResults_following_links(_, _)
ProcessResults_following_links(st, results) ==
    IF results = <<>> THEN st
    ELSE LET Found(st1) == [i \in 1..(Len(st1.queue.urls) - Len(st.queue.urls)) |->
                                st1.queue.urls[Len(st.queue.urls) + i].entry]
         IN  Only({Only({ProcessResults_following_links(
                             [st1 EXCEPT !.queue = mark_batch_fetched(@, found)],
                             Tail(results) \o
                                 [i \in 1..Len(found) |-> ResultOf(found[i].url, "failed")]) :
                         found \in {Found(st1)}}) :
                   st1 \in {ProcessResult(st, results[1])}})

\* The fold of "for result in results".
RECURSIVE ProcessResults(_, _)
ProcessResults(st, results) ==
    IF results = <<>> THEN st
    ELSE Only({ProcessResults(st1, Tail(results)) : st1 \in {ProcessResult(st, results[1])}})

\* A loop that leaves the dequeued batch pending.
MarkBatch_keep_pending(q, batch) == q

\* A loop that marks only the entries it passed to the fetcher.
MarkBatch_fetched_only(q, batch) ==
    LET Allowed(entry) == ~is_disallowed(entry.url, disallowed_paths)
    IN  mark_batch_fetched(q, SelectSeq(batch, Allowed))

\* mark_batch_fetched as the loop calls it.
MarkBatch(q, batch) == mark_batch_fetched(q, batch)

\* Every URL run_scraper can ask for: the queue's, and the sitemap, robots.txt
\* and changelog candidates of their origins.
NetUrls ==
    KnownUrls \cup {SitemapDocs} \cup
    UNION {{find_sitemap_urls(base)[i] : i \in 1..4} \cup {find_changelog_urls(base)[i] : i \in 1..8} :
           base \in {[scheme |-> urlparse(u).scheme, netloc |-> u.netloc] : u \in KnownUrls}}

\* The rules of the site's robots.txt that match each URL.
matching_rules_memo ==
    [url \in NetUrls |->
        {rule \in {Site["/robots.txt"].disallowed[i] : i \in 1..Len(Site["/robots.txt"].disallowed)} :
            is_disallowed(url, <<rule>>)}]

\* The history after fetch_one calls: traffic is the set of <<url, outcome>> of
\* calls made at the same time.  A call answered from the cache asks nothing of
\* the network.  A robots.txt that comes back with HTTP 200 serves its rules.
Sent(n, traffic) ==
    [n EXCEPT
       !.served = @ \cup
                    UNION {{Body(call[1]).disallowed[i] : i \in 1..Len(Body(call[1]).disallowed)} :
                           call \in {c \in traffic : /\ c[2] \in {"ok", "soft"}
                                                      /\ c[1].path = "/robots.txt"}},
       !.crossed = IF n.served = {} THEN @
                   ELSE @ \cup
                          {call[1] : call \in {c \in traffic :
                                                   /\ c[2] # "cached"
                                                   /\ matching_rules_memo[c[1]] \cap n.served # {}}},
       !.all_500 = @ /\ \A call \in traffic : call[2] \in {"failed", "cached"},
       !.client = @ \/ \E call \in traffic : call[2] # "cached"]

\* socket.getaddrinfo raises UnicodeError for a host name with an empty label.
\* _is_private_url catches socket.gaierror and OSError, which UnicodeError is
\* not, and fetch_one calls _is_private_url before its try: the URLs whose
\* fetch_one raises.
RaisingUrls == {url \in NetUrls : Contains(url.netloc, "..")}

\* Fetcher.close(), awaited while the requests of running are in flight.
Closed(n, running) ==
    [n EXCEPT !.closes = @ + 1, !.open_at_close = running,
              !.client = IF @ THEN FALSE ELSE @]

\* The calls of a list of URLs with their outcomes.
Calls(urls, kinds) == {<<urls[i], kinds[i]>> : i \in 1..Len(urls)}

\* The while condition of the fetch loop.
LoopCondition == pending_count(queue) > 0 /\ Len(all_content) < config.max_urls

\* run_scraper(topic, config, initial_urls) has been called.
RunStartWith(configs, lists, traffic) ==
    /\ queue = URLQueue
    /\ last = NoCall
    /\ offered = <<>>
    /\ added = {}
    /\ phase = "seed"
    /\ config \in configs
    /\ initial_urls \in lists
    /\ disallowed_paths = <<>>
    /\ all_content = <<>>
    /\ seen_texts = <<>>
    /\ stats = NoStats
    /\ batch_num = 0
    /\ docs_domains = {}
    /\ detected_version = <<>>
    /\ changelog_entries = <<>>
    /\ network = traffic
    /\ FetchIdle
    /\ page_cache = PageCache(0, 0)

RunStart(configs, lists) == RunStartWith(configs, lists, NoTraffic)

RInit == RunStart(Configs, SeedLists)

Seed ==
    /\ phase = "seed"
    /\ queue' = SeedQueue(queue, initial_urls)
    /\ docs_domains' = Origins(initial_urls)
    /\ phase' = "discovery"
    /\ UNCHANGED <<fvars, hvars, config, initial_urls, disallowed_paths, all_content, seen_texts,
                   stats, batch_num, detected_version, changelog_entries, network>>

Discover ==
    /\ phase = "discovery"
    /\ \E base \in docs_domains,
          kinds \in {k \in [1..4 -> {"ok", "failed", "soft"}] : \A i \in 1..3 : k[i] # "soft"},
          smkinds \in [1..1 -> {"ok", "failed"}] :
        \E sitemap_candidates \in {find_sitemap_urls(base)} :
        \E sitemap_results \in {[i \in 1..4 |-> ResultOf(sitemap_candidates[i], kinds[i])]} :
        \E d \in {ProcessSitemapResults(
                      [queue |-> queue, disallowed_paths |-> disallowed_paths],
                      sitemap_results, smkinds)} :
        \E n \in {Sent(network, Calls(sitemap_candidates, kinds))} :
            /\ \A i \in 1..4 : sitemap_candidates[i] \notin RaisingUrls
            /\ queue' = d.queue
            /\ disallowed_paths' = d.disallowed_paths
            /\ docs_domains' = docs_domains \ {base}
            /\ network' = IF sitemap_results[4].success
                           THEN Sent(n, Calls(parse_robots_txt(sitemap_results[4].content).sitemaps,
                                              smkinds))
                           ELSE n
    /\ UNCHANGED <<fvars, hvars, phase, config, initial_urls, all_content, seen_texts, stats,
                   batch_num, detected_version, changelog_entries>>

EndDiscovery ==
    /\ phase = "discovery"
    /\ docs_domains = {}
    /\ stats' = [stats EXCEPT !.urls_discovered = total_count(queue)]
    /\ phase' = "loop"
    /\ UNCHANGED <<fvars, queue, hvars, config, initial_urls, disallowed_paths, all_content,
                   seen_texts, batch_num, docs_domains, detected_version, changelog_entries,
                   network>>

LoopIteration ==
    /\ phase = "loop"
    /\ LoopCondition
    /\ batch_num < MaxBatches
    /\ \E batch \in {get_batch(queue, config.concurrency)} :
       LET Allowed(entry) == ~is_disallowed(entry.url, disallowed_paths)
       IN
       \E to_fetch \in {SelectSeq(batch, Allowed)} :
       LET urls_to_fetch == [i \in 1..Len(to_fetch) |-> to_fetch[i].url]
           skipped == Len(batch) - Len(to_fetch)
           stats1 == [stats EXCEPT !.urls_skipped_disallowed = @ + skipped]
       IN  /\ batch # <<>>
           /\ \A i \in 1..Len(urls_to_fetch) : urls_to_fetch[i] \notin RaisingUrls
           /\ batch_num' = batch_num + 1
           /\ \E kinds \in [1..Len(urls_to_fetch) -> OutcomeKinds] :
              \E results \in {[i \in 1..Len(urls_to_fetch) |->
                                    ResultOf(urls_to_fetch[i], kinds[i])]} :
              \E marked \in {MarkBatch(queue, batch)} :
              \E st \in {ProcessResults(
                              [queue |-> marked, all_content |-> all_content,
                               seen_texts |-> seen_texts, stats |-> stats1,
                               detected_version |-> detected_version],
                              results)} :
                    /\ queue' = st.queue
                    /\ all_content' = st.all_content
                    /\ seen_texts' = st.seen_texts
                    /\ stats' = st.stats
                    /\ detected_version' = st.detected_version
                    /\ network' = Sent(network, Calls(urls_to_fetch, kinds))
    /\ UNCHANGED <<fvars, hvars, phase, config, initial_urls, disallowed_paths, docs_domains,
                   changelog_entries>>

LoopExit ==
    /\ phase = "loop"
    /\ ~LoopCondition \/ get_batch(queue, config.concurrency) = <<>>
    /\ phase' = "changelog"
    /\ UNCHANGED <<fvars, queue, hvars, config, initial_urls, disallowed_paths, all_content,
                   seen_texts, stats, batch_num, docs_domains, detected_version,
                   changelog_entries, network>>

\* The outcomes of a changelog probe: the page as served, or an HTTP 500.
ProbeKinds == {"ok", "failed"}

\* The permutations of a set, as sequences.
Orders(S) == {order \in [1..Cardinality(S) -> S] : SeqToSet(order) = S}

\* What a probe of url that ends as kind makes of cl.
Probed(cl, url, kind) ==
    LET result == ResultOf(url, kind)
        entries == IF result.success /\ config.min_content_length > 200
                   THEN extract_changelog_entries_memo[extract_content(result.content, url).text]
                   ELSE <<>>
        probed == [cl EXCEPT !.probes = Append(@, <<url, kind>>), !.found = entries # <<>>]
    IN  IF entries # <<>>
        THEN [probed EXCEPT
                !.changelog_entries = entries,
                !.detected_version = IF NotDetected(@) /\ entries # <<>>
                                     THEN <<entries[1].version>> ELSE @]
        ELSE probed

\* The probes of one origin that fetch every candidate: no break.
RECURSIVE ProbeCandidates_no_break(_, _)
ProbeCandidates_no_break(cl, candidates) ==
    IF candidates = <<>> THEN {cl}
    ELSE UNION {ProbeCandidates_no_break(cl1, Tail(candidates)) :
                cl1 \in {Probed(cl, candidates[1], kind) : kind \in ProbeKinds}}

\* "for url in changelog_candidates[:4]" over cl = [detected_version,
\* changelog_entries, probes, found]: the candidates are fetched one after the
\* other, and a page with changelog entries (found) ends the probing of the
\* origin.  The set of what the loop can make of cl, one member for each way
\* the fetches can end.  fetch_one returns success only for a body of
\* min_content_length characters or more, so with the configured 500 a
\* successful result is longer than 200 characters.
RECURSIVE ProbeCandidates(_, _)
ProbeCandidates(cl, candidates) ==
    IF candidates = <<>> THEN {cl}
    ELSE UNION {IF cl1.found THEN {cl1} ELSE ProbeCandidates(cl1, Tail(candidates)) :
                cl1 \in {Probed(cl, candidates[1], kind) : kind \in ProbeKinds}}

\* "for base in docs_domains" of phase 3, the origins taken in the order the
\* set yields them, from each cl of cls.
RECURSIVE ProbeOrigins(_, _)
ProbeOrigins(cls, order) ==
    IF order = <<>> THEN cls
    ELSE ProbeOrigins(UNION {ProbeCandidates(cl, SubSeq(find_changelog_urls(order[1]), 1, 4)) :
                             cl \in cls},
                      Tail(order))

\* Phase 3, and the return of run_scraper.  A set of strings is iterated in
\* an order that differs from one interpreter run to the next.
Changelog ==
    /\ phase = "changelog"
    /\ \E order \in Orders(Origins(initial_urls)) :
       \E cl \in ProbeOrigins({[detected_version |-> detected_version,
                                changelog_entries |-> changelog_entries,
                                probes |-> <<>>, found |-> FALSE]},
                              order) :
            /\ detected_version' = cl.detected_version
            /\ changelog_entries' = cl.changelog_entries
            /\ network' = Closed([Sent(network, SeqToSet(cl.probes))
                                     EXCEPT !.probes = IF network.logs_probes
                                                       THEN cl.probes ELSE @],
                                 {})
    /\ stats' = [stats EXCEPT !.urls_discovered = total_count(queue)]
    /\ phase' = "done"
    /\ UNCHANGED <<fvars, queue, hvars, config, initial_urls, disallowed_paths, all_content,
                   seen_texts, batch_num, docs_domains>>

\* run_scraper up to the end of its fetch loop.
RNext == Seed \/ Discover \/ EndDiscovery \/ LoopIteration \/ LoopExit

SpecRun == RInit /\ [][RNext]_vars

\* The seeds of SeedLists, two pages with one text, and a list that names one
\* page twice and a URL the queue skips.
CrawlSeedLists == SeedLists \cup {<<RL1, RL2>>, <<RU1f, RU1, QU6>>}

CInit == RunStart(Configs, CrawlSeedLists)

\* run_scraper up to its return.
CNext == Seed \/ Discover \/ EndDiscovery \/ LoopIteration \/ LoopExit \/ Changelog

SpecCrawl == CInit /\ [][CNext]_vars

\* Seeds whose pages name versions, one after the other and after a page
\* that names none, and seeds of two origins.
VersionSeedLists == {<<>>, <<RU2>>, <<RV1, RV2>>, <<RU2, RV2>>, <<RU1f, RU1>>}

\* The configuration with the most pages and the most fetches at a time.
VersionConfigs == {ScrapeConfig(MaxUrls, MaxConcurrency)}

VInit == RunStartWith(VersionConfigs, VersionSeedLists, NoTrafficLogged)

SpecVersion == VInit /\ [][CNext]_vars

\* fetch_batch(sitemap_candidates) at an origin whose host name makes
\* getaddrinfo raise: each of the four fetch_one calls raises before it awaits
\* anything, asyncio.gather passes the first exception on, and the finally of
\* run_scraper awaits close().
DiscoverRaises ==
    /\ phase = "discovery"
    /\ \E base \in docs_domains :
           /\ \A i \in 1..4 : find_sitemap_urls(base)[i] \in RaisingUrls
           /\ network' = Closed([network EXCEPT !.raised = "discovery"], {})
    /\ phase' = "raised"
    /\ UNCHANGED <<fvars, queue, hvars, config, initial_urls, disallowed_paths, all_content,
                   seen_texts, stats, batch_num, docs_domains, detected_version,
                   changelog_entries>>

\* fetch_batch(urls_to_fetch) with a URL whose fetch_one raises.  gather has
\* started every fetch_one of the batch; one that is answered from the cache
\* has returned, and each of the others (running) has made the client and is
\* awaiting its request when the exception reaches run_scraper, which goes
\* to its finally and awaits close().  mark_batch_fetched is not reached.
LoopRaises ==
    /\ phase = "loop"
    /\ LoopCondition
    /\ batch_num < MaxBatches
    /\ \E batch \in {get_batch(queue, config.concurrency)} :
       LET Allowed(entry) == ~is_disallowed(entry.url, disallowed_paths)
       IN
       \E to_fetch \in {SelectSeq(batch, Allowed)} :
       LET urls_to_fetch == [i \in 1..Len(to_fetch) |-> to_fetch[i].url]
           skipped == Len(batch) - Len(to_fetch)
       IN  /\ \E i \in 1..Len(urls_to_fetch) : urls_to_fetch[i] \in RaisingUrls
           /\ batch_num' = batch_num + 1
           /\ stats' = [stats EXCEPT !.urls_skipped_disallowed = @ + skipped]
           /\ \E running \in SUBSET (SeqToSet(urls_to_fetch) \ RaisingUrls) :
                 network' = Closed([Sent(network, {<<url, "in_flight">> : url \in running})
                                       EXCEPT !.raised = "loop"],
                                   running)
    /\ phase' = "raised"
    /\ UNCHANGED <<fvars, queue, hvars, config, initial_urls, disallowed_paths, all_content,
                   seen_texts, docs_domains, detected_version, changelog_entries>>

\* Seeds with a page that links to a host name with an empty label, and with
\* such a host name itself.
ExitSeedLists == {<<>>, <<RE1>>, <<RX1>>, <<RU2, RX1>>}

XInit == RunStart(Configs, ExitSeedLists)

\* run_scraper on every path to its exit.
XNext ==
    \/ Seed \/ Discover \/ DiscoverRaises \/ EndDiscovery \/ LoopIteration \/ LoopRaises
    \/ LoopExit \/ Changelog

SpecExit == XInit /\ [][XNext]_vars

\* A step of the loop body: LoopIteration is the only action that advances
\* batch_num, and it is enabled exactly when this step is.  The batch is empty
\* when its slice of the unsorted entries is: the sort keeps their number.
LoopStep ==
    /\ phase = "loop"
    /\ LoopCondition
    /\ batch_num < MaxBatches
    /\ Slice(Remaining(queue), config.concurrency) # <<>>
    /\ batch_num' = batch_num + 1

\* The step that leaves the loop: LoopExit is the only action that moves phase
\* to "changelog".
ExitStep ==
    /\ phase = "loop"
    /\ ~LoopCondition \/ Slice(Remaining(queue), config.concurrency) = <<>>
    /\ phase' = "changelog"

\* run_scraper is a running task: inside the loop it takes its next iteration
\* whenever it has one, and leaves the loop when the condition fails.
SpecRunFair == SpecRun /\ WF_batch_num(LoopStep) /\ WF_phase(ExitStep)

\* ---------------------------------------------------------------------------
\* Claims about run_scraper
\* ---------------------------------------------------------------------------

\* Some queue entry, pending or handed out, came from link expansion.
CrawledPending == \E i \in 1..Len(queue.urls) : queue.urls[i].entry.depth = 1

\* C1: once run_scraper is in its fetch-and-expand loop, the loop eventually
\* exits, whatever the fetch outcomes and even when accepted pages add links;
\* every iteration moves at least one URL of the finite universe to the fetched
\* set, which is what bounds the number of iterations.
C1_LoopTerminates ==
    /\ (phase = "loop") ~> (phase = "changelog")
    /\ [][batch_num' # batch_num => fetched_count(queue)' > fetched_count(queue)]_vars

\* The loop has exited after at least two batches, with accepted pages whose
\* links it did not get to fetch.
C1_Witness ==
    /\ phase = "changelog"
    /\ batch_num >= 2
    /\ Len(all_content) >= 1
    /\ CrawledPending

\* C2: the number of accepted pages never exceeds config.max_urls.
C2_PagesWithinBudget == Len(all_content) <= config.max_urls

-----------------------------------------------------------------------------
(* scraper/fetcher.py: Fetcher.fetch_one, run as the tasks of one          *)
(* fetch_batch.  A task is suspended only where the coroutine really       *)
(* waits: on a held per-domain lock, in the rate-limit sleep, on a full    *)
(* semaphore, in client.get and in the backoff sleep.                      *)

RECURSIVE Pow(_, _)
Pow(base, n) == IF n = 0 THEN 1 ELSE base * Pow(base, n - 1)

SOFT_FAILURE_SIGNALS ==
    <<"sign in", "access denied", "log in to continue", "enable javascript",
      "403 forbidden", "404 not found", "page not found", "unauthorized", "please log in">>

\* Response bodies: one of exactly min_content_length characters, one a
\* character shorter, and one that opens with a login wall.
GoodBody == Repeat("0123456789", 50)
ShortBody == SubSeq(GoodBody, 1, 499)
LoginBody == "Please Log In. " \o GoodBody
\* Long pages that say "sign in" once: from character 2001 on, across the
\* 2000th character, and in characters 1994 to 2000.
LateBody == Repeat("0123456789", 200) \o "sign in"
StraddleBody == Repeat("0123456789", 199) \o "012345" \o "sign in" \o GoodBody
EndBody == Repeat("0123456789", 199) \o "012" \o "sign in" \o GoodBody

Bodies == {"", GoodBody, ShortBody, LoginBody, LateBody, StraddleBody, EndBody}

\* any(signal in content.lower()[:2000] for signal in SOFT_FAILURE_SIGNALS)
HasSignal(content) ==
    LET header == Prefix(Lower(content), 2000)
    IN  \E i \in 1..Len(SOFT_FAILURE_SIGNALS) : Contains(header, SOFT_FAILURE_SIGNALS[i])

has_signal_memo == [b \in Bodies |-> HasSignal(b)]

\* any(signal in content.lower() for signal in SOFT_FAILURE_SIGNALS)
has_signal_anywhere_memo ==
    [b \in Bodies |->
        \E i \in 1..Len(SOFT_FAILURE_SIGNALS) : Contains(Lower(b), SOFT_FAILURE_SIGNALS[i])]

\* A check that flags a phrase wherever it stands.
is_soft_failure_anywhere(content) ==
    \/ Len(content) < config.min_content_length
    \/ has_signal_anywhere_memo[content]

is_soft_failure(content) ==
    \/ Len(content) < config.min_content_length
    \/ has_signal_memo[content]

\* What one client.get can produce: a response, or a raised exception.
Response(status_code, text) == [kind |-> "response", status_code |-> status_code, text |-> text]
Raised(type, msg) == [kind |-> "raise", type |-> type, msg |-> msg]
NoOutcome == [kind |-> "none"]

Responses ==
    {Response(200, GoodBody), Response(200, ShortBody), Response(200, LoginBody),
     Response(400, ""), Response(404, ""), Response(499, ""),
     Response(500, ""), Response(503, "")}

\* httpx.TimeoutException, httpx.ConnectError and httpx.ReadError are the
\* classes the retry handler catches; TooManyRedirects is not one of them.
TransportErrors_and_redirects ==
    {"TimeoutException", "ConnectError", "ReadError", "TooManyRedirects"}

TransportErrors == {"TimeoutException", "ConnectError", "ReadError"}
Exceptions ==
    {Raised("TimeoutException", "timed out"), Raised("ConnectError", "refused"),
     Raised("ReadError", "reset"), Raised("TooManyRedirects", "redirects")}

Outcomes == Responses \cup Exceptions

\* The class of an outcome, as fetch_one tells them apart.
OutcomeClass(outcome) ==
    IF outcome.kind = "raise"
    THEN IF outcome.type \in TransportErrors THEN "transport" ELSE "unexpected"
    ELSE IF outcome.status_code >= 500 THEN "5xx"
    ELSE IF outcome.status_code >= 400 THEN "4xx"
    ELSE "2xx"

\* urlparse(url).hostname: the netloc in lower case without its port.
Hostname(url) ==
    LET netloc == Lower(url.netloc)
        colons == {i \in 1..Len(netloc) : SubSeq(netloc, i, i) = ":"}
    IN  IF colons = {} THEN netloc
        ELSE SubSeq(netloc, 1, (CHOOSE i \in colons : \A j \in colons : i <= j) - 1)

\* The hosts of the universe that are, or resolve to, a private address.
PrivateHosts == {"127.0.0.1", "intranet.a.com"}

\* A filter that only looks at what the host is or resolves to.
is_private_url_resolved_only(url) == Hostname(url) \in PrivateHosts

is_private_url(url) ==
    \/ Hostname(url) = ""
    \/ Hostname(url) \in {"localhost", "metadata.google.internal"}
    \/ Hostname(url) \in PrivateHosts

FB1 == Url("https", "api.b.com", "/docs/v1", <<>>, "")
FL1 == Url("http", "localhost:8080", "/docs", <<>>, "")
FP1 == Url("http", "127.0.0.1", "/docs", <<>>, "")
FP2 == Url("https", "Intranet.A.com", "/docs", <<>>, "")
FM1 == Url("http", "metadata.google.internal", "/computeMetadata/v1", <<>>, "")
FE1 == Url("", "", "/docs", <<>>, "")

\* Three pages of docs.c.com and a link that spells the same host in capitals.
RT1 == Url("https", "docs.c.com", "/guide/a", <<>>, "")
RT2 == Url("https", "docs.c.com", "/guide/b", <<>>, "")
RT3 == Url("https", "docs.c.com", "/guide/c", <<>>, "")
RT4 == Url("https", "Docs.C.com", "/guide/d", <<>>, "")

RateUrls == {RT1, RT2, RT3, RT4}

\* A page that is served with status 203 when it is served.
FC1 == Url("https", "docs.d.com", "/guide", <<>>, "")

\* A page served in many shapes.
FS1 == Url("https", "docs.e.com", "/guide", <<>>, "")

\* What client.get(url) may return or raise: docs.c.com answers with a page or
\* a 503, docs.d.com with a page under status 203 or a 404, docs.e.com with a
\* 2xx or 3xx response of one of seven bodies, the other hosts with anything.
Serves(url) ==
    IF url \in RateUrls THEN {Response(200, GoodBody), Response(503, "")}
    ELSE IF url = FC1 THEN {Response(203, GoodBody), Response(404, "")}
    ELSE IF url = FS1
    THEN {Response(200, LateBody), Response(200, StraddleBody), Response(200, EndBody),
          Response(203, LoginBody), Response(200, ShortBody), Response(304, ""),
          Response(301, GoodBody)}
    ELSE Outcomes

\* The URL lists handed to fetch_batch.
FetchLists ==
    {<<RU2, RU3>>, <<RU2, FB1>>, <<FL1, RU2>>, <<FP1, FP2>>, <<FM1, FE1>>, <<FC1, FC1>>,
     <<FS1, FC1>>}

MaxRetries == 3

\* Every list of FetchLists holds two URLs, so a semaphore of two or more slots
\* never fills and one slot makes the second request wait.
FetchConfigs ==
    {[ScrapeConfig(12, c) EXCEPT !.max_retries = r] : c \in {1, 2}, r \in 1..MaxRetries}

\* The batches and configurations run against the clock: the three-page batch
\* fills a semaphore of one or two slots.
RateLists == {<<RT1, RT4>>, <<RT1, RT2, RT3>>}
RateConfigs == {[ScrapeConfig(12, c) EXCEPT !.max_retries = r] : c \in {1, 2}, r \in {1, 2}}

\* The clock is followed up to MaxTime ticks.
MaxTime == 11

\* The frame of a fetch_one(url) coroutine; outcome, seen, log and used are
\* history: the latest client.get outcome, the classes of all outcomes so far,
\* the client.get calls and backoff sleeps in the order they were made, and
\* what the call has touched of "cache_get", "cache_put", "lock" (the
\* rate limiter), "semaphore" and "network"; starts holds the clock reading at
\* each client.get call, wake_at the end of the sleep the task is in, and
\* done_at the clock reading at the return.
Task(url) ==
    [url |-> url, pc |-> "start", attempt |-> 0, last_error |-> "", result |-> <<>>,
     outcome |-> NoOutcome, seen |-> {}, log |-> <<>>, used |-> {}, starts |-> <<>>,
     wake_at |-> 0, done_at |-> 0]

\* asyncio.sleep(seconds) called now: the tick at which it may return.
WakeAt(ticks) == IF clock.tracked THEN clock.now + ticks ELSE 0

\* asyncio.sleep has slept long enough.
Slept(task) == clock.tracked => clock.now >= task.wake_at

Event(op, seconds) == [op |-> op, seconds |-> seconds]

\* PageCache.put called without its status_code argument, which defaults to 200.
CachePut_default_status(cache, url, content, status_code) ==
    [u \in DOMAIN cache \cup {url} |->
        IF u = url THEN [content |-> content, status_code |-> 200, expired |-> FALSE]
        ELSE cache[u]]

\* PageCache.put: the entry expires cache_ttl (six hours) from now.  The cache
\* stays below max_entries and the disk takes the write.
CachePut(cache, url, content, status_code) ==
    [u \in DOMAIN cache \cup {url} |->
        IF u = url THEN [content |-> content, status_code |-> status_code, expired |-> FALSE]
        ELSE cache[u]]

\* An entry whose expires_at has passed.
Expired(cache, url) == [cache EXCEPT ![url].expired = TRUE]

\* PageCache.get returns an entry: there is one and it has not expired.
CacheHit(cache, url) == url \in DOMAIN cache /\ ~cache[url].expired

\* The cache after PageCache.get(url): an expired entry is unlinked.
CacheGet(cache, url) ==
    IF url \in DOMAIN cache /\ cache[url].expired
    THEN [u \in DOMAIN cache \ {url} |-> cache[u]]
    ELSE cache

\* A return that caches whatever content it carries.
Finish_caching(S, t, result) ==
    [S EXCEPT !.tasks[t].pc = "done", !.tasks[t].result = <<result>>,
              !.tasks[t].done_at = clock.now,
              !.fetcher.cache = IF result.content # "" /\ ~result.from_cache
                                THEN CachePut(@, result.url, result.content, result.status_code)
                                ELSE @]

\* return FetchResult(...), over S = [fetcher, tasks]
Finish(S, t, result) ==
    [S EXCEPT !.tasks[t].pc = "done", !.tasks[t].result = <<result>>,
              !.tasks[t].done_at = clock.now]

\* A client.get that does not wait for a semaphore slot.
Request_unbounded(S, t) ==
    [S EXCEPT !.fetcher.semaphore = @ - 1,
              !.tasks[t].pc = "request",
              !.tasks[t].log = Append(@, Event("get", 0)),
              !.tasks[t].starts = Append(@, clock.now),
              !.tasks[t].used = @ \cup {"semaphore", "network"}]

\* async with self._semaphore: ... await client.get(url)
Request(S, t) ==
    IF S.fetcher.semaphore > 0
    THEN [S EXCEPT !.fetcher.semaphore = @ - 1,
                   !.tasks[t].pc = "request",
                   !.tasks[t].log = Append(@, Event("get", 0)),
                   !.tasks[t].starts = Append(@, clock.now),
                   !.tasks[t].used = @ \cup {"semaphore", "network"}]
    ELSE [S EXCEPT !.tasks[t].pc = "sem_wait", !.tasks[t].used = @ \cup {"semaphore"}]

\* A _rate_limit that keeps the domain lock when it returns.
Stamp_keeping_lock(S, t) ==
    LET domain == S.tasks[t].url.netloc
    IN  Only({Request(S1, t) :
              S1 \in {[S EXCEPT !.fetcher.domain_last_request =
                                    [d \in DOMAIN @ \cup {domain} |->
                                        IF d = domain THEN clock.now ELSE @[d]]]}})

\* The end of _rate_limit: record the request time and release the domain lock.
Stamp(S, t) ==
    LET domain == S.tasks[t].url.netloc
    IN  Only({Request(S1, t) :
              S1 \in {[S EXCEPT !.fetcher.domain_last_request =
                                    [d \in DOMAIN @ \cup {domain} |->
                                        IF d = domain THEN clock.now ELSE @[d]],
                                !.fetcher.domain_locks[domain] = 0]}})

\* One lock for all domains.
LockHeld_any(S, domain) ==
    \E d \in DOMAIN S.fetcher.domain_locks : S.fetcher.domain_locks[d] # 0

\* self._domain_locks[domain] is locked.
LockHeld(S, domain) ==
    domain \in DOMAIN S.fetcher.domain_locks /\ S.fetcher.domain_locks[domain] # 0

\* _rate_limit with the domain lock free: take it, and sleep under it when
\* wait = rate_limit_delay - (now - last) is positive.  With the clock not
\* tracked, a domain requested before is too recent or not (waits); a domain
\* never requested has last_at = 0, far in the past of a running machine.
rate_limit(S, t, waits) ==
    LET domain == S.tasks[t].url.netloc
        locks == S.fetcher.domain_locks
        taken == [d \in DOMAIN locks \cup {domain} |-> IF d = domain THEN t ELSE locks[d]]
        stamps == S.fetcher.domain_last_request
        last_at == IF domain \in DOMAIN stamps THEN stamps[domain] ELSE 0
        wait == config.rate_limit_delay - (clock.now - last_at)
    IN  Only({IF (IF clock.tracked THEN wait > 0 ELSE waits /\ domain \in DOMAIN stamps)
              THEN [S1 EXCEPT !.tasks[t].pc = "rl_sleep", !.tasks[t].wake_at = WakeAt(wait)]
              ELSE Stamp(S1, t) :
              S1 \in {[S EXCEPT !.fetcher.domain_locks = taken,
                                !.tasks[t].used = @ \cup {"lock"}]}})

\* The top of "for attempt in range(self.config.max_retries)", and the return
\* after the loop.
StartAttempt(S, t, waits) ==
    LET task == S.tasks[t]
    IN  IF task.attempt >= config.max_retries
        THEN Finish(S, t, FetchResult(task.url, "", 0, FALSE,
                                      "Max retries exceeded: " \o task.last_error, FALSE, 0))
        ELSE IF LockHeld(S, task.url.netloc)
        THEN [S EXCEPT !.tasks[t].pc = "lock_wait", !.tasks[t].used = @ \cup {"lock"}]
        ELSE rate_limit(S, t, waits)

\* 400 <= response.status_code < 500, with a variant that lets 400 through.
IsPermanent_above_400(status_code) == 400 < status_code /\ status_code < 500

IsPermanent(status_code) == 400 <= status_code /\ status_code < 500

\* attempt < self.config.max_retries - 1, with a variant that always retries.
MayRetry_always(attempt) == TRUE

MayRetry(attempt) == attempt < config.max_retries - 1

\* A backoff sleep inside the "async with self._semaphore" block: the slot
\* stays taken while the call sleeps.
Backoff_in_slot(S, t) ==
    LET backoff == Pow(config.retry_backoff_base, S.tasks[t].attempt + 1)
    IN  [S EXCEPT !.fetcher.semaphore = @ - 1,
                  !.tasks[t].pc = "backoff",
                  !.tasks[t].wake_at = WakeAt(backoff * TicksPerSecond),
                  !.tasks[t].log = Append(@, Event("sleep", backoff))]

\* await asyncio.sleep(self.config.retry_backoff_base ** (attempt + 1))
Backoff(S, t) ==
    LET backoff == Pow(config.retry_backoff_base, S.tasks[t].attempt + 1)
    IN  [S EXCEPT !.tasks[t].pc = "backoff",
                  !.tasks[t].wake_at = WakeAt(backoff * TicksPerSecond),
                  !.tasks[t].log = Append(@, Event("sleep", backoff))]

\* The code after client.get returned or raised, up to the next suspension.
Handle(S, t, outcome, waits) ==
    LET task == S.tasks[t]
    IN  IF outcome.kind = "response"
        THEN IF IsPermanent(outcome.status_code)
             THEN Finish(S, t, FetchResult(task.url, "", outcome.status_code, FALSE,
                                           "HTTP " \o ToString(outcome.status_code), FALSE, 1))
             ELSE IF outcome.status_code >= 500
             THEN LET last_error == "HTTP " \o ToString(outcome.status_code)
                  IN  IF MayRetry(task.attempt)
                      THEN Backoff([S EXCEPT !.tasks[t].last_error = last_error], t)
                      ELSE Finish(S, t, FetchResult(task.url, "", outcome.status_code, FALSE,
                                                    last_error, FALSE, 1))
             ELSE IF is_soft_failure(outcome.text)
             THEN Finish(S, t, FetchResult(task.url, outcome.text, outcome.status_code, FALSE,
                                           "soft_failure", FALSE, 1))
             ELSE Finish([S EXCEPT !.fetcher.cache =
                                      CachePut(@, task.url, outcome.text, outcome.status_code),
                                   !.tasks[t].used = @ \cup {"cache_put"}],
                         t, FetchResult(task.url, outcome.text, outcome.status_code, TRUE,
                                        "", FALSE, 1))
        ELSE IF outcome.type \in TransportErrors
        THEN Only({IF MayRetry(task.attempt)
                   THEN Backoff(S1, t)
                   ELSE StartAttempt([S1 EXCEPT !.tasks[t].attempt = @ + 1], t, waits) :
                   S1 \in {[S EXCEPT !.tasks[t].last_error = outcome.type \o ": " \o outcome.msg]}})
        ELSE Finish(S, t, FetchResult(task.url, "", 0, FALSE,
                                      "Unexpected: " \o outcome.type \o ": " \o outcome.msg,
                                      FALSE, 0))

\* A new Fetcher about to run fetch_batch(urls).  A tracked clock starts at
\* an uptime of rate_limit_delay, the least that lets a first request through.
FetchStart(configs, lists, caches, tracked) ==
    /\ queue = URLQueue
    /\ last = NoCall
    /\ offered = <<>>
    /\ added = {}
    /\ phase = "idle"
    /\ config \in configs
    /\ initial_urls = <<>>
    /\ disallowed_paths = <<>>
    /\ all_content = <<>>
    /\ seen_texts = <<>>
    /\ stats = NoStats
    /\ batch_num = 0
    /\ docs_domains = {}
    /\ detected_version = <<>>
    /\ changelog_entries = <<>>
    /\ network = NoTraffic
    /\ \E cache \in caches :
        fetcher = [cache |-> cache, domain_locks |-> <<>>, domain_last_request |-> <<>>,
                   semaphore |-> config.concurrency]
    /\ \E urls \in lists : tasks = [i \in 1..Len(urls) |-> Task(urls[i])]
    /\ returned = <<>>
    /\ clock = [tracked |-> tracked, now |-> IF tracked THEN config.rate_limit_delay ELSE 0]
    /\ page_cache = PageCache(0, 0)

\* The cache starts empty, or with an entry for RU2 that is still good or has
\* expired.
FetchCaches ==
    {<<>>, CachePut(<<>>, RU2, GoodBody, 200), Expired(CachePut(<<>>, RU2, GoodBody, 200), RU2)}

FInit == FetchStart(FetchConfigs, FetchLists, FetchCaches, FALSE)

TInit == FetchStart(RateConfigs, RateLists, {<<>>}, TRUE)

\* A step of task t that takes [fetcher, tasks] to S.
Becomes(S) ==
    /\ fetcher' = S.fetcher
    /\ tasks' = S.tasks
    /\ UNCHANGED <<qvars, rvars, returned, clock, page_cache>>

Here == [fetcher |-> fetcher, tasks |-> tasks]

\* fetch_one from its call to its first suspension: the SSRF check, the cache
\* lookup and the first pass through the loop head.
Begin ==
    \E t \in DOMAIN tasks :
    /\ tasks[t].pc = "start"
    /\ \E waits \in BOOLEAN :
        \E S \in {IF is_private_url(tasks[t].url)
                  THEN Finish(Here, t, FetchResult(tasks[t].url, "", 0, FALSE,
                                                   "blocked_private_url", FALSE, 0))
                  ELSE Only({IF CacheHit(fetcher.cache, tasks[t].url)
                             THEN Finish(S1, t, FetchResult(tasks[t].url,
                                                            fetcher.cache[tasks[t].url].content,
                                                            fetcher.cache[tasks[t].url].status_code,
                                                            TRUE, "", TRUE, 0))
                             ELSE StartAttempt(S1, t, waits) :
                             S1 \in {[Here EXCEPT !.tasks[t].used = @ \cup {"cache_get"},
                                                  !.fetcher.cache = CacheGet(@, tasks[t].url)]}})} :
            Becomes(S)

\* The domain lock the task was waiting for is free.
LockAcquired ==
    \E t \in DOMAIN tasks :
    /\ tasks[t].pc = "lock_wait"
    /\ ~LockHeld(Here, tasks[t].url.netloc)
    /\ \E waits \in BOOLEAN : \E S \in {rate_limit(Here, t, waits)} : Becomes(S)

\* The rate-limit sleep is over.
RateLimitWake ==
    \E t \in DOMAIN tasks :
    /\ tasks[t].pc = "rl_sleep"
    /\ Slept(tasks[t])
    /\ \E S \in {Stamp(Here, t)} : Becomes(S)

\* A semaphore slot the task was waiting for is free.
SemAcquired ==
    \E t \in DOMAIN tasks :
    /\ tasks[t].pc = "sem_wait"
    /\ fetcher.semaphore > 0
    /\ \E S \in {Request(Here, t)} : Becomes(S)

\* client.get returns or raises; the slot is released on the way out of the
\* "async with" block.
Respond ==
    \E t \in DOMAIN tasks :
    /\ tasks[t].pc = "request"
    /\ \E outcome \in Serves(tasks[t].url), waits \in BOOLEAN :
        \E S1 \in {[Here EXCEPT !.fetcher.semaphore = @ + 1,
                                !.tasks[t].outcome = outcome,
                                !.tasks[t].seen = @ \cup {OutcomeClass(outcome)}]} :
        \E S \in {Handle(S1, t, outcome, waits)} : Becomes(S)

\* The backoff sleep is over: continue with the next attempt.
BackoffWake ==
    \E t \in DOMAIN tasks :
    /\ tasks[t].pc = "backoff"
    /\ Slept(tasks[t])
    /\ \E waits \in BOOLEAN :
        \E S1 \in {[Here EXCEPT !.tasks[t].attempt = @ + 1]} :
        \E S \in {StartAttempt(S1, t, waits)} : Becomes(S)

\* The results in the order the calls returned, calls that returned in the
\* same tick in the order of the awaitables.
gather_as_completed(frames) ==
    LET Before(u, t) ==
            \/ frames[u].done_at < frames[t].done_at
            \/ frames[u].done_at = frames[t].done_at /\ u < t
    IN  [i \in DOMAIN frames |->
            frames[CHOOSE t \in DOMAIN frames :
                       Cardinality({u \in DOMAIN frames : Before(u, t)}) = i - 1].result[1]]

\* asyncio.gather(*tasks): the result of each awaitable, in the order of the
\* awaitables.
gather(frames) == [i \in DOMAIN frames |-> frames[i].result[1]]

\* return await asyncio.gather(*tasks), once every fetch_one has returned.
Return ==
    /\ returned = <<>>
    /\ \A t \in DOMAIN tasks : tasks[t].pc = "done"
    /\ returned' = <<gather(tasks)>>
    /\ UNCHANGED <<qvars, rvars, fetcher, tasks, clock, page_cache>>

\* The fetch_one calls of a batch, each up to its return.
FNext == Begin \/ LockAcquired \/ RateLimitWake \/ SemAcquired \/ Respond \/ BackoffWake

SpecFetch == FInit /\ [][FNext]_vars

\* fetch_batch up to its return.
BNext == Begin \/ LockAcquired \/ RateLimitWake \/ SemAcquired \/ Respond \/ BackoffWake \/ Return

\* fetch_batch has a step to take: a fetch_one that has not started, one whose
\* request is in flight or whose sleep is running (the clock is not followed
\* here), one whose lock or semaphore slot is free, or the return.  BNext is
\* enabled exactly when this holds, and each of its steps changes tasks or
\* returned.
CanStep ==
    \/ \E t \in DOMAIN tasks :
          \/ tasks[t].pc \in {"start", "request", "rl_sleep", "backoff"}
          \/ tasks[t].pc = "lock_wait" /\ ~LockHeld(Here, tasks[t].url.netloc)
          \/ tasks[t].pc = "sem_wait" /\ fetcher.semaphore > 0
    \/ returned = <<>> /\ \A t \in DOMAIN tasks : tasks[t].pc = "done"

\* The event loop runs a coroutine that can run, every sleep ends, and every
\* request is answered or times out: weak fairness of BNext.
SpecBatchFair ==
    FInit /\ [][BNext]_vars /\ ([]<>~CanStep \/ []<><<CanStep>>_<<tasks, returned>>)

\* The event loop has a coroutine to run: one not yet started (asyncio.gather
\* starts them all at once), or one whose sleep is over or whose lock or
\* semaphore slot is free.
Runnable(t) ==
    \/ tasks[t].pc = "start"
    \/ tasks[t].pc \in {"rl_sleep", "backoff"} /\ clock.now >= tasks[t].wake_at
    \/ tasks[t].pc = "lock_wait" /\ ~LockHeld(Here, tasks[t].url.netloc)
    \/ tasks[t].pc = "sem_wait" /\ fetcher.semaphore > 0

\* A tick of the clock while fetch_batch is running: the event loop has run
\* every coroutine it could, and only sleeps and requests are left to wait for.
Tick ==
    /\ clock.tracked
    /\ clock.now < MaxTime
    /\ \A t \in DOMAIN tasks : ~Runnable(t)
    /\ \E t \in DOMAIN tasks : tasks[t].pc # "done"
    /\ clock' = [clock EXCEPT !.now = @ + 1]
    /\ UNCHANGED <<qvars, rvars, fetcher, tasks, returned, page_cache>>

TNext ==
    \/ Begin \/ LockAcquired \/ RateLimitWake \/ SemAcquired \/ Respond \/ BackoffWake
    \/ Return \/ Tick

\* fetch_batch against the clock.
SpecRate == TInit /\ [][TNext]_vars

-----------------------------------------------------------------------------
(* scraper/cache.py: PageCache over the files of its directory.            *)

\* The URLs put into the cache, the largest max_entries, the ttl values and
\* the last reading of time.time().
CacheUrls == {RU1, RU2, RU3, RU4}
MaxEntries == 2
CacheTtls == {2, 4}
MaxCacheTime == 4

\* PageCache.size: the number of entry files, expired ones included.
size(cache) == Cardinality(DOMAIN cache.files)

\* The cache with only the entries of keep left on disk.
Unlinked(cache, keep) == [cache EXCEPT !.files = [url \in keep |-> cache.files[url]]]

\* PageCache.evict_expired
evict_expired(cache) ==
    Unlinked(cache, {url \in DOMAIN cache.files : ~(cache.now > cache.files[url].expires_at)})

\* An eviction of any count entries, whatever their age.
evict_oldest_unsorted(cache, count) ==
    {[Unlinked(cache, DOMAIN cache.files \ gone) EXCEPT !.evicted = gone] :
        gone \in {g \in SUBSET DOMAIN cache.files : Cardinality(g) = Min(count, size(cache))}}

\* PageCache._evict_oldest: the first count entries in the order of cached_at
\* are unlinked.  The sort is stable over the order of glob, which is any, so
\* among entries of the same cached_at any may come first: the set of the
\* caches that may result.
evict_oldest(cache, count) ==
    {[Unlinked(cache, DOMAIN cache.files \ gone) EXCEPT !.evicted = gone] :
        gone \in {g \in SUBSET DOMAIN cache.files :
                     /\ Cardinality(g) = Min(count, size(cache))
                     /\ \A old \in g, kept \in DOMAIN cache.files \ g :
                            cache.files[old].cached_at <= cache.files[kept].cached_at}}

\* PageCache.put: the set of the caches that may result.  The write succeeds.
put(cache, url, content, status_code) ==
    LET data == [content |-> content, status_code |-> status_code, cached_at |-> cache.now,
                 expires_at |-> cache.now + cache.ttl]
        Written(c) == [c EXCEPT !.files = [u \in DOMAIN c.files \cup {url} |->
                                              IF u = url THEN data ELSE c.files[u]]]
        start == [cache EXCEPT !.evicted = {}]
    IN  IF size(start) >= start.max_entries
        THEN {Written(c) :
                c \in UNION {IF size(live) >= live.max_entries
                             THEN evict_oldest(live, size(live) - live.max_entries + 1)
                             ELSE {live} : live \in {evict_expired(start)}}}
        ELSE {Written(start)}

\* A PageCache of up to MaxEntries entries over an empty directory.
PInit ==
    /\ queue = URLQueue
    /\ last = NoCall
    /\ offered = <<>>
    /\ added = {}
    /\ RunIdle
    /\ page_cache \in {PageCache(ttl, max_entries) :
                          ttl \in CacheTtls, max_entries \in 0..MaxEntries}

\* cache.put(url, content)
Put ==
    \E url \in CacheUrls :
        \E cache \in put(page_cache, url, GoodBody, 200) :
            /\ page_cache' = cache
            /\ last' = [op |-> "put", arg |-> [url |-> url], ret |-> <<>>]
            /\ UNCHANGED <<queue, offered, added, rvars, fetcher, tasks, returned, clock>>

\* A second passes on time.time().
TimePasses ==
    /\ page_cache.now < MaxCacheTime
    /\ page_cache' = [page_cache EXCEPT !.now = @ + 1]
    /\ UNCHANGED <<qvars, rvars, fetcher, tasks, returned, clock>>

PNext == Put \/ TimePasses

SpecCache == PInit /\ [][PNext]_vars

-----------------------------------------------------------------------------
(* Claims about Fetcher.fetch_one                                          *)

\* The number of client.get calls in a task's log.
Gets(log) == Cardinality({i \in 1..Len(log) : log[i].op = "get"})

\* n client.get calls with exactly one backoff sleep between consecutive
\* calls and none after the last.
GetsWithSleepsBetween(log, n) ==
    /\ Len(log) = 2 * n - 1
    /\ \A i \in 1..Len(log) : log[i].op = (IF i % 2 = 1 THEN "get" ELSE "sleep")

\* C9: a fetch_one whose every attempt got a 5xx response has made exactly
\* max_retries requests, one backoff sleep between consecutive requests and
\* none after the last, and returns success=false with error "HTTP <code>" and
\* the code of the last response; one whose every attempt raised a timeout,
\* connect or read error has made exactly max_retries requests and returns
\* success=false, status_code 0 and "Max retries exceeded: <last error>".
C9_RetriesExhausted ==
    \A t \in DOMAIN tasks :
        LET task == tasks[t]
        IN  task.pc = "done" =>
            /\ task.seen = {"5xx"} =>
                /\ GetsWithSleepsBetween(task.log, config.max_retries)
                /\ task.result[1].success = FALSE
                /\ task.result[1].status_code = task.outcome.status_code
                /\ task.result[1].error = "HTTP " \o ToString(task.outcome.status_code)
            /\ task.seen = {"transport"} =>
                /\ Gets(task.log) = config.max_retries
                /\ task.result[1].success = FALSE
                /\ task.result[1].status_code = 0
                /\ task.result[1].error =
                       "Max retries exceeded: " \o task.outcome.type \o ": " \o task.outcome.msg

\* One call has returned after nothing but 5xx responses, another after
\* nothing but transport errors, with retries allowed.
C9_Witness ==
    /\ config.max_retries >= 2
    /\ \E t \in DOMAIN tasks :
        /\ tasks[t].pc = "done"
        /\ tasks[t].seen = {"5xx"}
        /\ tasks[t].result[1].error = "HTTP 503"
    /\ \E t \in DOMAIN tasks : tasks[t].pc = "done" /\ tasks[t].seen = {"transport"}

\* C10: a 400-499 response ends fetch_one: that request is the last entry of
\* the log for good (no further request, no backoff sleep), the result is
\* success=false, error "HTTP <code>", status_code=<code>, and when it came on
\* the first attempt the log holds exactly one request.
C10_PermanentFailure ==
    \A t \in DOMAIN tasks :
        LET task == tasks[t]
        IN  "4xx" \in task.seen =>
            /\ task.pc = "done"
            /\ task.outcome.kind = "response"
            /\ task.outcome.status_code \in 400..499
            /\ task.log[Len(task.log)].op = "get"
            /\ Gets(task.log) = task.attempt + 1
            /\ task.seen = {"4xx"} => task.log = <<Event("get", 0)>>
            /\ task.result[1].success = FALSE
            /\ task.result[1].status_code = task.outcome.status_code
            /\ task.result[1].error = "HTTP " \o ToString(task.outcome.status_code)

\* One call ended by a 404 on its first attempt, another by a 4xx that
\* followed a retried failure.
C10_Witness ==
    /\ \E t \in DOMAIN tasks :
        /\ tasks[t].seen = {"4xx"}
        /\ tasks[t].result[1].error = "HTTP 404"
    /\ \E t \in DOMAIN tasks : "4xx" \in tasks[t].seen /\ tasks[t].attempt >= 1

\* The URLs the claim calls private: no host, one of the two blocked names, or
\* a host that is or resolves to a private address.
ClassifiedPrivate(url) ==
    \/ url.netloc = ""
    \/ Hostname(url) \in {"localhost", "metadata.google.internal", "127.0.0.1", "intranet.a.com"}

PrivateUrls == {url \in UNION {{l[i] : i \in DOMAIN l} : l \in FetchLists} : ClassifiedPrivate(url)}

\* C11: a fetch_one for a private URL, once it has run, has returned
\* success=false, error "blocked_private_url", status_code 0 and has touched
\* neither the cache, the rate limiter, the semaphore nor the network.
C11_PrivateBlocked ==
    \A t \in DOMAIN tasks :
        LET task == tasks[t]
        IN  task.url \in PrivateUrls /\ task.pc # "start" =>
            /\ task.pc = "done"
            /\ task.used = {}
            /\ task.log = <<>>
            /\ task.url \notin DOMAIN fetcher.cache
            /\ task.result = <<FetchResult(task.url, "", 0, FALSE, "blocked_private_url",
                                           FALSE, 0)>>

\* A fetch of http://localhost:8080/docs has been refused while the other
\* fetch of the batch went to the network.
C11_Witness ==
    /\ tasks[1].url = FL1
    /\ tasks[1].pc = "done"
    /\ "network" \in tasks[2].used

\* The pairs of URLs of the same host.
SameHost == {pair \in RateUrls \X RateUrls : Hostname(pair[1]) = Hostname(pair[2])}

\* C12: any two client.get calls to the same host, of one task or of two,
\* start at least rate_limit_delay apart.
C12_RateLimited ==
    \A t1, t2 \in DOMAIN tasks :
        \A i \in DOMAIN tasks[t1].starts, j \in DOMAIN tasks[t2].starts :
            /\ t1 # t2 \/ i # j
            /\ <<tasks[t1].url, tasks[t2].url>> \in SameHost
            => \/ tasks[t1].starts[i] - tasks[t2].starts[j] >= config.rate_limit_delay
               \/ tasks[t2].starts[j] - tasks[t1].starts[i] >= config.rate_limit_delay

\* The tasks whose client.get call has started and not yet returned or raised.
InFlight == {t \in DOMAIN tasks : tasks[t].pc = "request"}

\* C13: at every moment at most config.concurrency requests are in flight.
C13_InFlightBounded == Cardinality(InFlight) <= config.concurrency

\* Every slot is taken by a request in flight and another call is waiting for
\* one.
C13_Witness ==
    /\ Cardinality(InFlight) = config.concurrency
    /\ \E t \in DOMAIN tasks : tasks[t].pc = "sem_wait"

\* C14: the list fetch_batch returns has one result per URL handed in, and
\* result i is the result of the fetch of urls[i] and carries that URL.
C14_BatchOrder ==
    returned # <<>> =>
        /\ Len(returned[1]) = Len(tasks)
        /\ \A i \in DOMAIN tasks :
            /\ returned[1][i].url = tasks[i].url
            /\ returned[1][i] = tasks[i].result[1]

\* A batch of three has returned whose first fetch was the last to finish, with
\* both successes and failures among its results.
C14_Witness ==
    /\ returned # <<>>
    /\ Len(tasks) = 3
    /\ tasks[2].done_at < tasks[1].done_at
    /\ tasks[3].done_at < tasks[1].done_at
    /\ \E i, j \in DOMAIN tasks : returned[1][i].success /\ ~returned[1][j].success

\* C15: when a fetch_one(u) has returned success from the network and the
\* entry has not expired, a following fetch_one(u) returns at once with
\* success, from_cache, the content and status code the first returned,
\* fetch_time_ms 0, and without a client.get call.
C15_CacheRoundTrip ==
    [][\A t, u \in DOMAIN tasks :
        /\ tasks[u].pc = "done"
        /\ tasks[u].url = tasks[t].url
        /\ tasks[u].result[1].success
        /\ ~tasks[u].result[1].from_cache
        /\ CacheHit(fetcher.cache, tasks[t].url)
        /\ tasks[t].pc = "start"
        /\ tasks'[t].pc # "start"
        => /\ tasks'[t].pc = "done"
           /\ tasks'[t].result =
                  <<FetchResult(tasks[t].url, tasks[u].result[1].content,
                                tasks[u].result[1].status_code, TRUE, "", TRUE, 0)>>
           /\ tasks'[t].log = <<>>
           /\ "network" \notin tasks'[t].used]_vars

\* The first fetch of the page got it from the network under status 203 and
\* the second, made after the first had returned, got it from the cache.
C15_Witness ==
    /\ tasks[1].url = FC1
    /\ tasks[2].url = FC1
    /\ tasks[1].pc = "done"
    /\ tasks[1].result[1].success
    /\ ~tasks[1].result[1].from_cache
    /\ tasks[1].result[1].status_code = 203
    /\ tasks[2].pc = "done"
    /\ tasks[2].result[1].from_cache

\* The bodies the claim calls a soft failure: shorter than 500 characters,
\* or with a soft-failure phrase in the first 2000 lowercased characters.
SoftBodies == {b \in Bodies : Len(b) < 500 \/ HasSignal(b)}

\* C16: a fetch_one ended by a 2xx or 3xx response returns success=false,
\* error "soft_failure" with the body and the status code of the response when
\* the body is short or has a phrase in its first 2000 characters, and
\* success otherwise, also when a phrase stands after the first 2000
\* characters.
C16_SoftFailure ==
    \A t \in DOMAIN tasks :
        LET task == tasks[t]
        IN  /\ task.pc = "done"
            /\ task.outcome.kind = "response"
            /\ task.outcome.status_code >= 200
            /\ task.outcome.status_code < 400
            => /\ task.result[1].content = task.outcome.text
               /\ task.result[1].status_code = task.outcome.status_code
               /\ task.result[1].success = (task.outcome.text \notin SoftBodies)
               /\ task.result[1].error =
                      (IF task.outcome.text \in SoftBodies THEN "soft_failure" ELSE "")

\* The page has been fetched with "sign in" after its 2000th character.
C16_Witness ==
    \E t \in DOMAIN tasks :
        /\ tasks[t].pc = "done"
        /\ tasks[t].outcome.kind = "response"
        /\ tasks[t].outcome.text = LateBody
        /\ tasks[t].result[1].success

\* What PageCache.get can return from a cache: its entries that have not
\* expired, each with its content and status code.
Entries(cache) ==
    [u \in {v \in DOMAIN cache : ~cache[v].expired} |->
        [content |-> cache[u].content, status_code |-> cache[u].status_code]]

C18_RobotsRespected == network.crossed = {}

\* C19: no two accepted pages have texts whose first 5000 characters are
\* more than 0.90 similar: the later of two such pages is counted under
\* urls_skipped_dedup and kept out of pages.
C19_NoNearDuplicates ==
    \A i, j \in 1..Len(seen_texts) :
        i < j => ~Above90(content_similarity(seen_texts[i], seen_texts[j]))

\* The seed URLs the queue takes, as it tells them apart.
SeedsAccepted ==
    {Normalized(initial_urls[i]) : i \in {j \in 1..Len(initial_urls) : ~Skipped(initial_urls[j])}}

C30_GetBatchPeeks ==
    [][last'.op = "get_batch"
         => /\ queue' = queue
            /\ (last.op = "get_batch" /\ last.arg.size = last'.arg.size
                  => last'.ret = last.ret)]_vars

\* A get_batch has returned two of three pending entries, and both are still
\* pending.
C30_Witness ==
    /\ last.op = "get_batch"
    /\ Len(last.ret) = 2
    /\ pending_count(queue) = 3
    /\ \A i \in 1..2 : Normalized(last.ret[i].url) \in Keys(queue) \ queue.fetched

\* The normalized URLs that are pending.
Pending(q) == {q.urls[i].norm : i \in {j \in 1..Len(q.urls) : q.urls[j].norm \notin q.fetched}}

\* C26 as stated: every iteration of the fetch loop ends with fewer pending
\* URLs than it started with.
C26_PendingShrinks_Always ==
    [][batch_num' # batch_num => pending_count(queue') < pending_count(queue)]_vars

\* C26: every iteration of the fetch loop takes the URLs of its batch out of
\* the pending set for good, and an iteration that accepts no page ends with
\* fewer pending URLs than it started with.
C26_PendingShrinks ==
    [][batch_num' # batch_num
         => /\ \A i \in 1..Len(get_batch(queue, config.concurrency)) :
                   Normalized(get_batch(queue, config.concurrency)[i].url) \notin Pending(queue')
            /\ (all_content' = all_content
                  => pending_count(queue') < pending_count(queue))]_vars

\* The loop has run two iterations that accepted no page, and a URL is still
\* pending.
C26_Witness ==
    /\ phase = "loop"
    /\ batch_num = 2
    /\ all_content = <<>>
    /\ stats.urls_fetched = 2
    /\ pending_count(queue) > 0

\* C27: every entry of a batch, fetched or skipped as disallowed, is new to
\* the fetched set when get_batch returns it and is in the fetched set when
\* the iteration ends; the entries the loop has fetched or skipped so far are
\* as many as the normalized URLs marked fetched, so none was handed out twice.
C27_BatchMarkedOnce ==
    [][batch_num' # batch_num
         => /\ \A i \in 1..Len(get_batch(queue, config.concurrency)) :
                   /\ Normalized(get_batch(queue, config.concurrency)[i].url) \notin queue.fetched
                   /\ Normalized(get_batch(queue, config.concurrency)[i].url) \in queue'.fetched
            /\ stats'.urls_fetched + stats'.urls_skipped_disallowed = fetched_count(queue')]_vars

\* The loop has skipped a disallowed URL in one batch and fetched a URL in a
\* later one.
C27_Witness ==
    /\ batch_num >= 2
    /\ stats.urls_skipped_disallowed = 1
    /\ stats.urls_fetched >= 1
    /\ fetched_count(queue) = stats.urls_fetched + 1

\* The outcomes of client.get the claim calls not retryable: a response with a
\* status below 400, one with a status of 400 to 499, and an exception that is
\* not a timeout, connect or read error.
NotRetryable(outcome) ==
    \/ outcome.kind = "response" /\ outcome.status_code < 500
    \/ /\ outcome.kind = "raise"
       /\ outcome.type \notin {"TimeoutException", "ConnectError", "ReadError"}

\* C28: a fetch_one whose latest client.get outcome is not retryable has
\* returned, whatever retryable failures came before: that request is the last
\* entry of its log (no backoff sleep and no request after it), it was the
\* request of the attempt the loop was in, a response below 400 gave success
\* or "soft_failure" with the status and body of the response, and an
\* unexpected exception gave status_code 0 and "Unexpected: <type>: <msg>".
C28_StopsAtFirstFinal ==
    \A t \in DOMAIN tasks :
        LET task == tasks[t]
        IN  NotRetryable(task.outcome) =>
            /\ task.pc = "done"
            /\ task.log[Len(task.log)].op = "get"
            /\ Gets(task.log) = task.attempt + 1
            /\ task.outcome.kind = "response" /\ task.outcome.status_code < 400 =>
                /\ task.result[1].status_code = task.outcome.status_code
                /\ task.result[1].content = task.outcome.text
                /\ \/ task.result[1].success /\ task.result[1].error = ""
                   \/ ~task.result[1].success /\ task.result[1].error = "soft_failure"
            /\ task.outcome.kind = "raise" =>
                /\ ~task.result[1].success
                /\ task.result[1].status_code = 0
                /\ task.result[1].error =
                       "Unexpected: " \o task.outcome.type \o ": " \o task.outcome.msg

\* One call succeeded on its second request after a 5xx response, and another
\* returned an unexpected error after its only request.
C28_Witness ==
    /\ \E t \in DOMAIN tasks :
        /\ tasks[t].pc = "done"
        /\ tasks[t].seen = {"5xx", "2xx"}
        /\ tasks[t].result[1].success
        /\ GetsWithSleepsBetween(tasks[t].log, 2)
    /\ \E t \in DOMAIN tasks :
        /\ tasks[t].pc = "done"
        /\ tasks[t].log = <<Event("get", 0)>>
        /\ tasks[t].result[1].error = "Unexpected: TooManyRedirects: redirects"

\* The tasks whose URL has a netloc other than that of task t.
OtherHosts(t) == {u \in DOMAIN tasks : tasks[u].url.netloc # tasks[t].url.netloc}

ClaimedSkipped(url) ==
    LET path == Lower(url.path)
    IN  \/ \E p \in SKIP_PATH_PATTERNS :
              Contains(IF EndsWith(path, "/") THEN path ELSE path \o "/", p)
        \/ Lower(url.scheme) \notin {"http", "https", ""}
        \/ \E ext \in SKIP_EXTS : EndsWith(path, ext)
        \/ path \in {"", "/"} /\ url.fragment # "" /\ url.query = <<>>

\* C23: should_skip_url returns true exactly for the URLs the claim lists, and
\* add returns false for each of them and leaves the queue without it.
C23_ShouldSkipIff ==
    /\ last.op = "should_skip_url" => last.ret = ClaimedSkipped(last.arg.url)
    /\ last.op = "add" /\ ClaimedSkipped(last.arg.url) =>
          /\ last.ret = FALSE
          /\ queue.urls = <<>>

\* Away from the empty and the root path should_skip_url returns true exactly
\* for the URLs the claim lists.
C23_ShouldSkipIff_PathGiven ==
    last.op = "should_skip_url" /\ last.arg.url.path \notin {"", "/"} =>
        last.ret = ClaimedSkipped(last.arg.url)

\* A URL of NormalizeForms without what the claim calls noise: scheme and host
\* in lower case, the path without a trailing slash, the query without its
\* tracking parameters, and no fragment; origin is what a normalized URL of
\* that scheme and host starts with when its path is not empty.
NoiseFree ==
    [u \in NormalizeForms |->
        LET Bare(path) == IF EndsWith(path, "/") THEN SubSeq(path, 1, Len(path) - 1) ELSE path
            Kept(kv) == kv[1] \notin TRACKING_PARAMS
        IN  [scheme |-> Lower(u.scheme), netloc |-> Lower(u.netloc), path |-> Bare(u.path),
             params |-> u.params, query |-> SelectSeq(u.query, Kept),
             origin |-> Lower(u.scheme) \o "://" \o Lower(u.netloc) \o "/"]]

PutKeepsBound ==
    last'.op = "put" /\ page_cache'.now = page_cache.now =>
        /\ size(page_cache') <= page_cache.max_entries
        /\ (/\ last'.arg.url \notin DOMAIN page_cache.files
            /\ size(page_cache) = page_cache.max_entries
            /\ \A url \in DOMAIN page_cache.files :
                   page_cache.now <= page_cache.files[url].expires_at)
           => /\ last'.arg.url \in DOMAIN page_cache'.files
              /\ \E gone \in DOMAIN page_cache.files :
                    /\ DOMAIN page_cache'.files =
                           (DOMAIN page_cache.files \ {gone}) \cup {last'.arg.url}
                    /\ \A url \in DOMAIN page_cache.files :
                           page_cache.files[gone].cached_at <= page_cache.files[url].cached_at
                    /\ \A url \in DOMAIN page_cache.files \ {gone} :
                           page_cache'.files[url] = page_cache.files[url]

C21_FailuresNeverRaise ==
    /\ network.raised = ""
    /\ phase # "raised"
    /\ phase = "done" =>
           DOMAIN stats = {"urls_discovered", "urls_fetched", "urls_failed", "urls_cached",
                           "urls_skipped_dedup", "urls_skipped_disallowed", "soft_failures"}

\* C22: on a return and on an exception alike close() has been awaited once
\* when run_scraper is left, with no request in flight, and not before.
C22_ClosedOnceAfterLastFetch ==
    IF phase \in {"done", "raised"}
    THEN network.closes = 1 /\ network.open_at_close = {}
    ELSE network.closes = 0

\* The lists with the items of urls in every order.
Permuted(urls) ==
    {[i \in 1..Len(urls) |-> urls[p[i]]] :
        p \in {f \in [1..Len(urls) -> 1..Len(urls)] :
                  \A i, j \in 1..Len(urls) : f[i] = f[j] => i = j}}

\* The pending map as a set of <<key, stored entry>>.
Contents(q) == {<<q.urls[i].norm, q.urls[i].entry>> : i \in 1..Len(q.urls)}

\* The pending map without the spelling of the stored URLs.
Ranked(q) ==
    {<<q.urls[i].norm, q.urls[i].entry.score, q.urls[i].entry.source, q.urls[i].entry.depth>> :
        i \in 1..Len(q.urls)}

\* C31 as stated: add_many applied to any permutation of its list leaves the
\* same keys with the same stored entries pending and returns the same count.
C31_AddManyAnyOrder_AnyList ==
    [][last'.op = "add_many" =>
         \A urls \in Permuted(last'.arg.urls) :
             \E r \in {add_many(queue, urls, last'.arg.score, last'.arg.source, last'.arg.depth)} :
                 /\ Contents(r.queue) = Contents(queue')
                 /\ r.ret = last'.ret]_vars

\* C31 amended: any permutation leaves the same keys pending, each with the
\* same score, source and depth, and returns the same count; the stored
\* entries are the same too when no two different URLs of the list have one
\* normalized key.
C31_AddManyAnyOrder ==
    [][last'.op = "add_many" =>
         \A urls \in Permuted(last'.arg.urls) :
             \E r \in {add_many(queue, urls, last'.arg.score, last'.arg.source, last'.arg.depth)} :
                 /\ Ranked(r.queue) = Ranked(queue')
                 /\ r.queue.fetched = queue'.fetched
                 /\ r.ret = last'.ret
                 /\ (\A i, j \in 1..Len(urls) :
                        Normalized(urls[i]) = Normalized(urls[j]) => urls[i] = urls[j])
                    => Contents(r.queue) = Contents(queue')]_vars

\* add_many(<<QU1, QU2>>) with automatic scores has added their common key:
\* QU2, of score 5, is stored, as it is after add_many(<<QU2, QU1>>).
C31_Witness ==
    /\ last.op = "add_many"
    /\ last.arg.urls = <<QU1, QU2>>
    /\ last.arg.score = <<>>
    /\ last.ret = 1
    /\ Normalized(QU1) \in Keys(queue)
    /\ Stored(queue, Normalized(QU1)).url = QU2
    /\ Stored(queue, Normalized(QU1)).score = 5

\* C38: after every queue operation each pending entry is stored under the
\* normalized form of its own URL; and a mark_batch_fetched of the batch that
\* get_batch returns takes exactly the keys of the batch out of the pending
\* map, leaves every other entry as it was, and adds exactly those keys to the
\* fetched set.
C38_KeyedByNormalizedUrl ==
    [][/\ \A i \in 1..Len(queue'.urls) :
             Normalized(queue'.urls[i].entry.url) = queue'.urls[i].norm
       /\ last'.op = "mark_batch_fetched" =>
            \E keys \in {{Normalized(last'.arg.batch[i].url) : i \in 1..Len(last'.arg.batch)}} :
                /\ last'.arg.batch = get_batch(queue, Len(last'.arg.batch))
                /\ Keys(queue') = Keys(queue) \ keys
                /\ Contents(queue') = {c \in Contents(queue) : c[1] \notin keys}
                /\ Cardinality(keys) = Len(last'.arg.batch)
                /\ queue'.fetched = queue.fetched \cup keys]_vars

\* A batch of two has been marked fetched; one of its entries held QU2, whose
\* spelling differs from its key, and that key has left the pending map.
C38_Witness ==
    /\ last.op = "mark_batch_fetched"
    /\ Len(last.arg.batch) = 2
    /\ \E i \in 1..2 : last.arg.batch[i].url = QU2
    /\ url_string_memo[QU2] # Normalized(QU2)
    /\ Normalized(QU2) \in queue.fetched
    /\ Normalized(QU2) \notin Keys(queue)

\* The results the loop has put into its four outcome classes.
Classed(st, pages) ==
    st.urls_failed + st.soft_failures + st.urls_skipped_dedup + Len(pages)

\* C37: at every moment between batches and at the return, urls_fetched is
\* the sum of urls_failed, soft_failures, urls_skipped_dedup and the number of
\* pages; a loop iteration raises urls_fetched by the number of URLs it
\* fetched (its batch without the disallowed entries) and the four classes
\* together by as much; and discovery and the changelog probes leave
\* urls_fetched, the four classes and urls_cached as they are.
C37_StatsAccount ==
    [][/\ stats'.urls_fetched = Classed(stats', all_content')
       /\ batch_num' # batch_num =>
            \E fetched \in {Len(get_batch(queue, config.concurrency))
                              - (stats'.urls_skipped_disallowed - stats.urls_skipped_disallowed)} :
                /\ stats'.urls_fetched = stats.urls_fetched + fetched
                /\ Classed(stats', all_content') = Classed(stats, all_content) + fetched
                /\ stats'.urls_failed >= stats.urls_failed
                /\ stats'.soft_failures >= stats.soft_failures
                /\ stats'.urls_skipped_dedup >= stats.urls_skipped_dedup
                /\ Len(all_content') >= Len(all_content)
       /\ batch_num' = batch_num =>
            /\ [stats' EXCEPT !.urls_discovered = 0] = [stats EXCEPT !.urls_discovered = 0]
            /\ all_content' = all_content]_vars

\* A run has returned with a result in each of the four classes, after
\* discovery and changelog probes that went to the network.
C37_Witness ==
    /\ phase = "done"
    /\ stats.urls_failed >= 1
    /\ stats.soft_failures >= 1
    /\ stats.urls_skipped_dedup >= 1
    /\ Len(all_content) >= 1
    /\ stats.urls_fetched = Classed(stats, all_content)
    /\ ~network.all_500

\* C33: in a loop iteration every entry that is new to the pending map, or
\* has changed in it, holds a link of a page the iteration accepted, with
\* score 4, depth 1 and source "crawled:<page url>"; so an iteration that
\* accepts no page (its results failed, soft-failed or were duplicates) adds
\* and changes nothing.  Every page record that is new belongs to a URL of the
\* batch.  And every link of an accepted page that should_skip does not
\* reject is pending or fetched after the iteration.
C33_LinksOfAcceptedPagesOnly ==
    [][batch_num' # batch_num =>
         \E pages \in {SubSeq(all_content', Len(all_content) + 1, Len(all_content'))} :
             /\ SubSeq(all_content', 1, Len(all_content)) = all_content
             /\ \A c \in Contents(queue') \ Contents(queue) :
                   \E i \in 1..Len(pages) :
                       /\ c[2].score = SCORE_OFFICIAL_GUIDE
                       /\ c[2].depth = 1
                       /\ c[2].source = "crawled:" \o url_string_memo[pages[i].url]
                       /\ c[2].url \in SeqToSet(Body(pages[i].url).links)
             /\ \A i \in 1..Len(pages) :
                   /\ \E j \in 1..Len(get_batch(queue, config.concurrency)) :
                         get_batch(queue, config.concurrency)[j].url = pages[i].url
                   /\ \A link \in SeqToSet(Body(pages[i].url).links) :
                         Skipped(link) \/ Normalized(link) \in Keys(queue') \cup queue'.fetched]_vars

\* An iteration has counted a duplicate and a failure; the only page accepted
\* so far is RU2, and RU4, a link of RU2, is pending with score 4, depth 1
\* and source "crawled:<RU2>".
C33_Witness ==
    /\ phase = "loop"
    /\ stats.urls_skipped_dedup >= 1
    /\ stats.urls_failed >= 1
    /\ Len(all_content) = 1
    /\ all_content[1].url = RU2
    /\ Normalized(RU4) \in Keys(queue)
    /\ Stored(queue, Normalized(RU4)) =
           ScoredURL(RU4, SCORE_OFFICIAL_GUIDE, "crawled:" \o url_string_memo[RU2], 1)

\* C32: what a loop iteration fetches or skips, the keys it adds to the
\* fetched set, was pending when the iteration began and is the batch that
\* get_batch returns then; so a URL that the iteration itself discovers in
\* a page, a key new to the queue, is pending when the iteration ends and is
\* fetched in a later iteration if at all.
C32_BatchesDoNotOverlap ==
    [][batch_num' # batch_num =>
         /\ queue'.fetched \ queue.fetched \subseteq Pending(queue)
         /\ queue'.fetched \ queue.fetched =
              {Normalized(get_batch(queue, config.concurrency)[i].url) :
                  i \in 1..Len(get_batch(queue, config.concurrency))}
         /\ \A n \in Keys(queue') \ Keys(queue) : n \in Pending(queue') /\ n \notin queue'.fetched
      ]_vars

\* The first iteration has accepted RU2 and found its link RU4, which is
\* pending and not fetched when the iteration ends.
C32_Witness ==
    /\ phase = "loop"
    /\ batch_num = 1
    /\ Len(all_content) = 1
    /\ all_content[1].url = RU2
    /\ Normalized(RU4) \in Pending(queue)
    /\ Stored(queue, Normalized(RU4)).source = "crawled:" \o url_string_memo[RU2]
    /\ Normalized(RU4) \notin queue.fetched

\* C39: the slots of the semaphore that are taken are as many as the
\* requests in flight: a call that waits for its domain lock or for a slot,
\* sleeps in the rate limiter or in a backoff, or has returned holds none, and
\* with no request in flight all config.concurrency slots are free, whatever
\* the requests before ended in.
C39_SlotOnlyWhileRequesting ==
    /\ fetcher.semaphore = config.concurrency - Cardinality(InFlight)
    /\ InFlight = {} => fetcher.semaphore = config.concurrency

\* One call sleeps in its backoff after a transport error, the other has its
\* request in flight, and one slot is taken.
C39_Witness ==
    /\ \E t, u \in DOMAIN tasks :
          /\ tasks[t].pc = "backoff"
          /\ tasks[t].outcome.kind = "raise"
          /\ tasks[u].pc = "request"
    /\ config.concurrency = 2
    /\ fetcher.semaphore = 1

C34_VersionNeverChanges ==
    [][detected_version # <<>> => detected_version' = detected_version]_vars

\* The run has returned the version of its first accepted page, after it
\* accepted a second page that names another version and found a changelog
\* whose first entry is a third.
C34_Witness ==
    /\ phase = "done"
    /\ Len(all_content) = 2
    /\ all_content[1].url = RV1
    /\ all_content[2].url = RV2
    /\ detect_version_memo[Body(RV2).text] = <<"2.4">>
    /\ changelog_entries # <<>>
    /\ changelog_entries[1].version = "3.2.0"
    /\ detected_version = <<"3.1.0">>

\* The probes of phase 3 that went to an origin, in the order they were made.
ProbesOf(base) ==
    LET At(probe) == probe[1].netloc = base.netloc /\ probe[1].scheme = base.scheme
    IN  SelectSeq(network.probes, At)

\* The probe came back with a page that has changelog entries.
Yields(probe) ==
    /\ probe[2] = "ok"
    /\ extract_changelog_entries_memo[Body(probe[1]).text] # <<>>

C36_VersionOfFirstEntry ==
    /\ phase = "done"
    /\ \A i \in 1..Len(all_content) : detect_version_memo[Body(all_content[i].url).text] = <<>>
    /\ changelog_entries # <<>>
    => detected_version = <<changelog_entries[1].version>>

====
